---- MODULE Spec2Model ----
(***************************************************************************)
(* A model of LocalFileSystemProvider (src/LocalFileSystemProvider.ts):    *)
(* path resolution against the root directory, the file operations built   *)
(* on it, the directory walk and grep, and executeCommand.                 *)
(*                                                                         *)
(* A path string is a record [abs, segs, trail]: whether it starts with    *)
(* "/", its "/"-separated segments, and whether it ends with "/".          *)
(* The filesystem is a function from normalized absolute paths (sequences  *)
(* of names) to nodes [t, bytes], t being "none", "dir" or "file".         *)
(***************************************************************************)
EXTENDS Integers, Sequences, FiniteSets, TLC

VARIABLES fs, last, pc, proc

vars == <<fs, last, pc, proc>>

----------------------------------------------------------------------------
(* Sequences and path strings *)

IsPrefix(s, t) == Len(s) <= Len(t) /\ SubSeq(t, 1, Len(s)) = s

Front(s) == SubSeq(s, 1, Len(s) - 1)

RECURSIVE SeqsUpTo(_, _)
SeqsUpTo(S, n) ==
  IF n = 0 THEN {<<>>}
  ELSE LET shorter == SeqsUpTo(S, n - 1)
       IN  shorter \cup {Append(q, x) : q \in shorter, x \in S}

Str(abs, segs, trail) == [abs |-> abs, segs |-> segs, trail |-> trail]

Rel(segs) == Str(FALSE, segs, FALSE)

Abs(segs) == Str(TRUE, segs, FALSE)

EmptyStr == Rel(<<>>)

(* this.rootDirectory: the absolute directory the provider was built on *)
rootDirectory == Abs(<<"r">>)

Thrown(msg) == [kind |-> "throw", msg |-> msg]

Returned(v) == [kind |-> "ok", val |-> v]

----------------------------------------------------------------------------
(* node:path, POSIX flavour *)

isAbsolute(p) == p.abs

(* normalizeString: "." is dropped, ".." pops a segment and is dropped at "/" *)
RECURSIVE NormalizeAbs(_, _)
NormalizeAbs(acc, segs) ==
  IF segs = <<>> THEN acc
  ELSE LET s == Head(segs)
       IN  IF s = "." THEN NormalizeAbs(acc, Tail(segs))
           ELSE IF s = ".."
             THEN NormalizeAbs(IF acc = <<>> THEN <<>> ELSE Front(acc), Tail(segs))
             ELSE NormalizeAbs(Append(acc, s), Tail(segs))

(* path.resolve(from, p) for an absolute from: normalized, no trailing "/" *)
resolve(from, p) ==
  IF p.abs THEN Abs(NormalizeAbs(<<>>, p.segs))
  ELSE Abs(NormalizeAbs(<<>>, from.segs \o p.segs))

RECURSIVE CommonLen(_, _)
CommonLen(s, t) ==
  IF s = <<>> \/ t = <<>> \/ Head(s) # Head(t) THEN 0
  ELSE 1 + CommonLen(Tail(s), Tail(t))

(* path.relative(from, to) for absolute arguments *)
relative(from, to) ==
  LET f == NormalizeAbs(<<>>, from.segs)
      t == NormalizeAbs(<<>>, to.segs)
      n == CommonLen(f, t)
  IN  Rel([i \in 1..(Len(f) - n) |-> ".."] \o SubSeq(t, n + 1, Len(t)))

(* path.join(a, b) for an absolute a: normalized, keeps b's trailing "/" *)
join(a, b) ==
  LET segs == NormalizeAbs(<<>>, a.segs \o b.segs)
  IN  Str(TRUE, segs, segs # <<>> /\ (IF b.segs = <<>> THEN a.trail ELSE b.trail))

(* path.dirname(p) for a normalized absolute p *)
dirname(p) == Abs(IF p.segs = <<>> THEN <<>> ELSE Front(p.segs))

(* String.prototype.startsWith(".."): the first two characters are dots *)
DotDotNames == {"..", "..a"}

startsWithDotDot(p) == ~p.abs /\ p.segs # <<>> /\ Head(p.segs) \in DotDotNames

----------------------------------------------------------------------------
(* LocalFileSystemProvider: path resolution *)

relativeOrAbsolutePathToAbsolutePath(p) ==
  IF isAbsolute(p)
    THEN LET relativePath == relative(rootDirectory, p)
         IN  IF startsWithDotDot(relativePath) \/ isAbsolute(relativePath)
               THEN Thrown("outside the root directory")
               ELSE Returned(p)
    ELSE Returned(resolve(rootDirectory, p))

relativeOrAbsolutePathToRelativePath(p) ==
  LET a == relativeOrAbsolutePathToAbsolutePath(p)
  IN  IF a.kind = "throw" THEN a ELSE Returned(relative(rootDirectory, a.val))

(* the location an absolute path string denotes *)
Location(p) == NormalizeAbs(<<>>, p.segs)

InsideRoot(p) == p.abs /\ IsPrefix(rootDirectory.segs, Location(p))

----------------------------------------------------------------------------
(* Bounds of the model *)

(* longest path string given to the pure path functions, in segments *)
MaxSegs == 3

(* depth of the modelled tree below the root directory *)
MaxDepth == 2

(* most entries (files and directories) the modelled disk holds besides *)
(* "/" and the root directory                                           *)
MaxNodes == 3

----------------------------------------------------------------------------
(* The disk *)

FsNames == {"a", "b"}

(* every location of the model: "/", "/e" outside the root, the root and *)
(* what lies below it                                                    *)
Locations ==
  {<<>>, <<"e">>} \cup {rootDirectory.segs \o q : q \in SeqsUpTo(FsNames, MaxDepth)}

NoNode == [t |-> "none", bytes |-> <<>>]

DirNode == [t |-> "dir", bytes |-> <<>>]

FileNode(bytes) == [t |-> "file", bytes |-> bytes]

Node(f, loc) == IF loc \in DOMAIN f THEN f[loc] ELSE NoNode

(* the disk the constructor accepts: the root directory exists *)
EmptyFs ==
  [loc \in Locations |-> IF IsPrefix(loc, rootDirectory.segs) THEN DirNode ELSE NoNode]

Entries(f) == {loc \in DOMAIN f : f[loc].t # "none" /\ ~IsPrefix(loc, rootDirectory.segs)}

Children(f, loc) == {q \in DOMAIN f : q # <<>> /\ Front(q) = loc /\ f[q].t # "none"}

(* some proper ancestor of loc is a regular file *)
UnderFile(f, loc) ==
  \E n \in 0..(Len(loc) - 1) : Node(f, SubSeq(loc, 1, n)).t = "file"

(* every proper ancestor of loc is a directory *)
ParentsAreDirs(f, loc) ==
  \A n \in 0..(Len(loc) - 1) : Node(f, SubSeq(loc, 1, n)).t = "dir"

(* result of a call into the operating system: an error code ("" for none), *)
(* the disk afterwards, and whether the call left the modelled locations    *)
Sys(err, f, over) == [err |-> err, fs |-> f, over |-> over]

Ok(f) == Sys("", f, FALSE)

Fail(code, f) == Sys(code, f, FALSE)

----------------------------------------------------------------------------
(* fs-extra and node:fs calls, by location *)

(* fs.pathExists: fs.access succeeded *)
pathExists(f, loc) == ParentsAreDirs(f, loc) /\ Node(f, loc).t # "none"

(* fs.ensureDir: mkdir -p *)
ensureDir(f, loc) ==
  IF UnderFile(f, loc) THEN Fail("ENOTDIR", f)
  ELSE IF Node(f, loc).t = "file" THEN Fail("EEXIST", f)
  ELSE IF loc \notin DOMAIN f THEN Sys("", f, TRUE)
  ELSE Ok([q \in DOMAIN f |-> IF IsPrefix(q, loc) THEN DirNode ELSE f[q]])

(* fs.mkdir without recursive *)
mkdir(f, loc) ==
  IF UnderFile(f, loc) THEN Fail("ENOTDIR", f)
  ELSE IF ~ParentsAreDirs(f, loc) THEN Fail("ENOENT", f)
  ELSE IF Node(f, loc).t # "none" THEN Fail("EEXIST", f)
  ELSE IF loc \notin DOMAIN f THEN Sys("", f, TRUE)
  ELSE Ok([f EXCEPT ![loc] = DirNode])

(* fs.writeFile mistaken for fs.appendFile: what the file held stays in front *)
fsWriteFile_Appends(f, loc, bytes) ==
  IF UnderFile(f, loc) THEN Fail("ENOTDIR", f)
  ELSE IF ~ParentsAreDirs(f, loc) THEN Fail("ENOENT", f)
  ELSE IF Node(f, loc).t = "dir" THEN Fail("EISDIR", f)
  ELSE IF loc \notin DOMAIN f THEN Sys("", f, TRUE)
  ELSE Ok([f EXCEPT ![loc] = FileNode(Node(f, loc).bytes \o bytes)])

(* fs.writeFile: creates or truncates a regular file *)
fsWriteFile(f, loc, bytes) ==
  IF UnderFile(f, loc) THEN Fail("ENOTDIR", f)
  ELSE IF ~ParentsAreDirs(f, loc) THEN Fail("ENOENT", f)
  ELSE IF Node(f, loc).t = "dir" THEN Fail("EISDIR", f)
  ELSE IF loc \notin DOMAIN f THEN Sys("", f, TRUE)
  ELSE Ok([f EXCEPT ![loc] = FileNode(bytes)])

(* fs.remove: rm -rf, silent when the path is absent *)
remove(f, loc) ==
  Ok([q \in DOMAIN f |-> IF IsPrefix(loc, q) /\ loc # <<>> THEN NoNode ELSE f[q]])

(* where location q of the subtree at old lands when old becomes new *)
Moved(old, new, q) == new \o SubSeq(q, Len(old) + 1, Len(q))

SubtreeFits(f, old, new) ==
  \A q \in DOMAIN f :
    (IsPrefix(old, q) /\ f[q].t # "none") => Moved(old, new, q) \in DOMAIN f

(* the disk with the subtree at old copied to new, replacing what was there *)
Graft(f, old, new) ==
  [q \in DOMAIN f |->
     IF IsPrefix(new, q)
       THEN Node(f, old \o SubSeq(q, Len(new) + 1, Len(q)))
       ELSE f[q]]

(* fs.rename: rename(2) *)
fsRename(f, old, new) ==
  IF UnderFile(f, old) \/ UnderFile(f, new) THEN Fail("ENOTDIR", f)
  ELSE IF ~pathExists(f, old) \/ ~ParentsAreDirs(f, new) THEN Fail("ENOENT", f)
  ELSE IF old = new THEN Ok(f)
  ELSE IF old = <<>> \/ new = <<>> THEN Fail("EBUSY", f)
  ELSE IF Node(f, old).t = "dir" /\ IsPrefix(old, new) THEN Fail("EINVAL", f)
  ELSE IF Node(f, old).t = "file" /\ Node(f, new).t = "dir" THEN Fail("EISDIR", f)
  ELSE IF Node(f, old).t = "dir" /\ Node(f, new).t = "file" THEN Fail("ENOTDIR", f)
  ELSE IF Node(f, new).t = "dir" /\ Children(f, new) # {} THEN Fail("ENOTEMPTY", f)
  ELSE IF ~SubtreeFits(f, old, new) THEN Sys("", f, TRUE)
  ELSE LET g == Graft(f, old, new)
       IN  Ok([q \in DOMAIN g |-> IF IsPrefix(old, q) THEN NoNode ELSE g[q]])

(* fs-extra copy of one entry whose destination parent exists: the type   *)
(* checks of checkPaths, then onFile (copyFile, after unlink when         *)
(* overwriting) or onDir (mkdir, then every entry of the source in turn). *)
(* A failing entry fails the copy; its siblings are still copied.         *)
RECURSIVE copyEntry(_, _, _, _)
RECURSIVE copyItems(_, _, _, _, _)
copyEntry(f, src, dest, overwrite) ==
  LET s == Node(f, src)
      d == Node(f, dest)
  IN  IF d.t # "none" /\ src = dest
        THEN Fail("Source and destination must not be the same.", f)
      ELSE IF d.t # "none" /\ s.t = "dir" /\ d.t # "dir"
        THEN Fail("Cannot overwrite non-directory with directory", f)
      ELSE IF d.t # "none" /\ s.t # "dir" /\ d.t = "dir"
        THEN Fail("Cannot overwrite directory with non-directory", f)
      ELSE IF s.t = "dir" /\ IsPrefix(src, dest) /\ src # dest
        THEN Fail("Cannot copy to a subdirectory of itself", f)
      ELSE IF dest \notin DOMAIN f THEN Sys("", f, TRUE)
      ELSE IF s.t = "file"
        THEN IF d.t = "none" \/ overwrite
               THEN Ok([f EXCEPT ![dest] = s])
               ELSE Ok(f)
        ELSE copyItems([f EXCEPT ![dest] = DirNode], Children(f, src), src, dest, overwrite)

copyItems(f, items, src, dest, overwrite) ==
  IF items = {} THEN Ok(f)
  ELSE LET item == CHOOSE q \in items : TRUE
           one  == copyEntry(f, item, Moved(src, dest, item), overwrite)
           rest == copyItems(one.fs, items \ {item}, src, dest, overwrite)
       IN  Sys(IF one.err # "" THEN one.err ELSE rest.err, rest.fs, one.over \/ rest.over)

(* fs.copy of fs-extra: stat of both ends, the type checks, mkdirs of the *)
(* destination's parent, then the copy                                     *)
fsCopy(f, src, dest, overwrite) ==
  IF ~pathExists(f, src) THEN Fail("ENOENT", f)
  ELSE IF UnderFile(f, dest) THEN Fail("ENOTDIR", f)
  ELSE LET d == IF ParentsAreDirs(f, dest) THEN Node(f, dest) ELSE NoNode
           s == Node(f, src)
       IN  IF d.t # "none" /\ src = dest
             THEN Fail("Source and destination must not be the same.", f)
           ELSE IF d.t # "none" /\ s.t = "dir" /\ d.t # "dir"
             THEN Fail("Cannot overwrite non-directory with directory", f)
           ELSE IF d.t # "none" /\ s.t # "dir" /\ d.t = "dir"
             THEN Fail("Cannot overwrite directory with non-directory", f)
           ELSE IF s.t = "dir" /\ IsPrefix(src, dest) /\ src # dest
             THEN Fail("Cannot copy to a subdirectory of itself", f)
           ELSE LET made == ensureDir(f, IF dest = <<>> THEN <<>> ELSE Front(dest))
                IN  IF made.err # "" \/ made.over THEN made
                    ELSE copyEntry(made.fs, src, dest, overwrite)

----------------------------------------------------------------------------
(* Text and bytes.  A string is a sequence of UTF-16 code units: "x" and   *)
(* "y" stand for ASCII letters, "\n" for the line feed, "HS" and "LS" for  *)
(* a high and a low surrogate, "FFFD" for U+FFFD.  A file holds bytes:     *)
(* "x", "y" and "\n" are themselves, "EFBFBD" is the encoding of U+FFFD,   *)
(* "F0" the four bytes of the character a surrogate pair encodes, and "80" *)
(* a stray continuation byte.                                              *)

(* Buffer.from(string, "utf8"), as fs.writeFile encodes a string *)
RECURSIVE utf8Encode(_)
utf8Encode(units) ==
  IF units = <<>> THEN <<>>
  ELSE LET u == Head(units)
       IN  IF u = "HS" /\ Len(units) >= 2 /\ units[2] = "LS"
             THEN <<"F0">> \o utf8Encode(Tail(Tail(units)))
           ELSE IF u \in {"HS", "LS", "FFFD"}
             THEN <<"EFBFBD">> \o utf8Encode(Tail(units))
             ELSE <<u>> \o utf8Encode(Tail(units))

(* Buffer.prototype.toString("utf8"), as fs.readFileSync decodes a file *)
RECURSIVE utf8Decode(_)
utf8Decode(bytes) ==
  IF bytes = <<>> THEN <<>>
  ELSE LET b == Head(bytes)
       IN  IF b = "F0" THEN <<"HS", "LS">> \o utf8Decode(Tail(bytes))
           ELSE IF b \in {"EFBFBD", "80"} THEN <<"FFFD">> \o utf8Decode(Tail(bytes))
           ELSE <<b>> \o utf8Decode(Tail(bytes))

(* content: string | Buffer *)
StringContent(units) == [kind |-> "string", data |-> units]

BufferContent(bytes) == [kind |-> "Buffer", data |-> bytes]

(* the bytes fs.writeFile puts on disk for a content *)
ContentBytes(content) ==
  IF content.kind = "string" THEN utf8Encode(content.data) ELSE content.data

(* no surrogate stands alone *)
RECURSIVE WellFormed(_)
WellFormed(units) ==
  IF units = <<>> THEN TRUE
  ELSE IF Head(units) = "HS"
    THEN Len(units) >= 2 /\ units[2] = "LS" /\ WellFormed(Tail(Tail(units)))
    ELSE Head(units) # "LS" /\ WellFormed(Tail(units))

----------------------------------------------------------------------------
(* LocalFileSystemProvider: file operations.  Each takes the disk and the  *)
(* call's arguments and gives what the call returns or throws, the disk    *)
(* afterwards, and whether it left the modelled locations.                 *)

Out(res, f, over) == [res |-> res, fs |-> f, over |-> over]

(* an operating-system call's failure, thrown on as it is *)
Rethrow(sys) == Out(Thrown(sys.err), sys.fs, sys.over)

writeFile(f, filePath, content) ==
  LET absolutePath == relativeOrAbsolutePathToAbsolutePath(filePath)
  IN  IF absolutePath.kind = "throw" THEN Out(absolutePath, f, FALSE)
      ELSE LET made == ensureDir(f, Location(dirname(absolutePath.val)))
           IN  IF made.err # "" \/ made.over THEN Rethrow(made)
               ELSE LET written ==
                          fsWriteFile(made.fs, Location(absolutePath.val), ContentBytes(content))
                    IN  IF written.err # "" \/ written.over THEN Rethrow(written)
                        ELSE Out(Returned(TRUE), written.fs, FALSE)

(* deleteFile without the check that the path is a regular file *)
deleteFile_NoFileCheck(f, filePath) ==
  LET absolutePath == relativeOrAbsolutePathToAbsolutePath(filePath)
  IN  IF absolutePath.kind = "throw" THEN Out(absolutePath, f, FALSE)
      ELSE IF ~pathExists(f, Location(absolutePath.val))
        THEN Out(Thrown("does not exist"), f, FALSE)
      ELSE Out(Returned(TRUE), remove(f, Location(absolutePath.val)).fs, FALSE)

deleteFile(f, filePath) ==
  LET absolutePath == relativeOrAbsolutePathToAbsolutePath(filePath)
  IN  IF absolutePath.kind = "throw" THEN Out(absolutePath, f, FALSE)
      ELSE IF ~pathExists(f, Location(absolutePath.val))
        THEN Out(Thrown("does not exist"), f, FALSE)
      ELSE IF Node(f, Location(absolutePath.val)).t # "file"
        THEN Out(Thrown("is not a file"), f, FALSE)
      ELSE Out(Returned(TRUE), remove(f, Location(absolutePath.val)).fs, FALSE)

readFile(f, filePath) ==
  LET absolutePath == relativeOrAbsolutePathToAbsolutePath(filePath)
  IN  IF absolutePath.kind = "throw" THEN Out(absolutePath, f, FALSE)
      ELSE IF ~pathExists(f, Location(absolutePath.val))
        THEN Out(Thrown("does not exist"), f, FALSE)
      ELSE IF Node(f, Location(absolutePath.val)).t # "file"
        THEN Out(Thrown("is not a file"), f, FALSE)
      ELSE Out(Returned(utf8Decode(Node(f, Location(absolutePath.val)).bytes)), f, FALSE)

(* rename without the check that the destination is free *)
(* rename preparing the destination's parent before its checks *)
rename_EnsuresDirFirst(f, oldPath, newPath) ==
  LET absoluteOldPath == relativeOrAbsolutePathToAbsolutePath(oldPath)
      absoluteNewPath == relativeOrAbsolutePathToAbsolutePath(newPath)
  IN  IF absoluteOldPath.kind = "throw" THEN Out(absoluteOldPath, f, FALSE)
      ELSE IF absoluteNewPath.kind = "throw" THEN Out(absoluteNewPath, f, FALSE)
      ELSE LET made == ensureDir(f, Location(dirname(absoluteNewPath.val)))
           IN  IF made.err # "" \/ made.over THEN Rethrow(made)
               ELSE IF ~pathExists(made.fs, Location(absoluteOldPath.val))
                 THEN Out(Thrown("does not exist"), made.fs, FALSE)
               ELSE IF pathExists(f, Location(absoluteNewPath.val))
                 THEN Out(Thrown("already exists"), made.fs, FALSE)
               ELSE LET moved == fsRename(made.fs, Location(absoluteOldPath.val),
                                          Location(absoluteNewPath.val))
                    IN  IF moved.err # "" \/ moved.over THEN Rethrow(moved)
                        ELSE Out(Returned(TRUE), moved.fs, FALSE)

rename_NoDestinationCheck(f, oldPath, newPath) ==
  LET absoluteOldPath == relativeOrAbsolutePathToAbsolutePath(oldPath)
      absoluteNewPath == relativeOrAbsolutePathToAbsolutePath(newPath)
  IN  IF absoluteOldPath.kind = "throw" THEN Out(absoluteOldPath, f, FALSE)
      ELSE IF absoluteNewPath.kind = "throw" THEN Out(absoluteNewPath, f, FALSE)
      ELSE IF ~pathExists(f, Location(absoluteOldPath.val))
        THEN Out(Thrown("does not exist"), f, FALSE)
      ELSE LET made == ensureDir(f, Location(dirname(absoluteNewPath.val)))
           IN  IF made.err # "" \/ made.over THEN Rethrow(made)
               ELSE LET moved == fsRename(made.fs, Location(absoluteOldPath.val),
                                          Location(absoluteNewPath.val))
                    IN  IF moved.err # "" \/ moved.over THEN Rethrow(moved)
                        ELSE Out(Returned(TRUE), moved.fs, FALSE)

rename(f, oldPath, newPath) ==
  LET absoluteOldPath == relativeOrAbsolutePathToAbsolutePath(oldPath)
      absoluteNewPath == relativeOrAbsolutePathToAbsolutePath(newPath)
  IN  IF absoluteOldPath.kind = "throw" THEN Out(absoluteOldPath, f, FALSE)
      ELSE IF absoluteNewPath.kind = "throw" THEN Out(absoluteNewPath, f, FALSE)
      ELSE IF ~pathExists(f, Location(absoluteOldPath.val))
        THEN Out(Thrown("does not exist"), f, FALSE)
      ELSE IF pathExists(f, Location(absoluteNewPath.val))
        THEN Out(Thrown("already exists"), f, FALSE)
      ELSE LET made == ensureDir(f, Location(dirname(absoluteNewPath.val)))
           IN  IF made.err # "" \/ made.over THEN Rethrow(made)
               ELSE LET moved == fsRename(made.fs, Location(absoluteOldPath.val),
                                          Location(absoluteNewPath.val))
                    IN  IF moved.err # "" \/ moved.over THEN Rethrow(moved)
                        ELSE Out(Returned(TRUE), moved.fs, FALSE)

(* exists without its try/catch: the resolution error escapes *)
exists_NoCatch(f, filePath) ==
  LET absolutePath == relativeOrAbsolutePathToAbsolutePath(filePath)
  IN  IF absolutePath.kind = "throw" THEN Out(absolutePath, f, FALSE)
      ELSE Out(Returned(pathExists(f, Location(absolutePath.val))), f, FALSE)

exists(f, filePath) ==
  LET absolutePath == relativeOrAbsolutePathToAbsolutePath(filePath)
  IN  IF absolutePath.kind = "throw" THEN Out(Returned(FALSE), f, FALSE)
      ELSE Out(Returned(pathExists(f, Location(absolutePath.val))), f, FALSE)

(* createDirectory that does not look at what is there already *)
createDirectory_NoExistsCheck(f, dirPath, recursive) ==
  LET absolutePath == relativeOrAbsolutePathToAbsolutePath(dirPath)
  IN  IF absolutePath.kind = "throw" THEN Out(absolutePath, f, FALSE)
      ELSE LET made == IF recursive THEN ensureDir(f, Location(absolutePath.val))
                                    ELSE mkdir(f, Location(absolutePath.val))
           IN  IF made.over THEN Rethrow(made)
               ELSE IF ~recursive /\ made.err = "ENOENT"
                 THEN Out(Thrown("Parent directory does not exist"), made.fs, FALSE)
               ELSE IF made.err # "" THEN Rethrow(made)
               ELSE Out(Returned(TRUE), made.fs, FALSE)

createDirectory(f, dirPath, recursive) ==
  LET absolutePath == relativeOrAbsolutePathToAbsolutePath(dirPath)
  IN  IF absolutePath.kind = "throw" THEN Out(absolutePath, f, FALSE)
      ELSE IF pathExists(f, Location(absolutePath.val))
        THEN IF Node(f, Location(absolutePath.val)).t = "dir"
               THEN Out(Returned(TRUE), f, FALSE)
               ELSE Out(Thrown("exists but is not a directory"), f, FALSE)
      ELSE LET made == IF recursive THEN ensureDir(f, Location(absolutePath.val))
                                    ELSE mkdir(f, Location(absolutePath.val))
           IN  IF made.over THEN Rethrow(made)
               ELSE IF ~recursive /\ made.err = "ENOENT"
                 THEN Out(Thrown("Parent directory does not exist"), made.fs, FALSE)
               ELSE IF made.err # "" THEN Rethrow(made)
               ELSE Out(Returned(TRUE), made.fs, FALSE)

(* copy that does not hand its overwrite option on to fs.copy *)
copy_DropsOverwrite(f, source, destination, overwrite) ==
  LET absoluteSource == relativeOrAbsolutePathToAbsolutePath(source)
      absoluteDestination == relativeOrAbsolutePathToAbsolutePath(destination)
  IN  IF absoluteSource.kind = "throw" THEN Out(absoluteSource, f, FALSE)
      ELSE IF absoluteDestination.kind = "throw" THEN Out(absoluteDestination, f, FALSE)
      ELSE IF ~pathExists(f, Location(absoluteSource.val))
        THEN Out(Thrown("Source path does not exist"), f, FALSE)
      ELSE IF ~overwrite /\ pathExists(f, Location(absoluteDestination.val))
        THEN Out(Thrown("Destination path already exists"), f, FALSE)
      ELSE LET copied == fsCopy(f, Location(absoluteSource.val),
                                Location(absoluteDestination.val), FALSE)
           IN  IF copied.err # "" \/ copied.over THEN Rethrow(copied)
               ELSE Out(Returned(TRUE), copied.fs, FALSE)

copy(f, source, destination, overwrite) ==
  LET absoluteSource == relativeOrAbsolutePathToAbsolutePath(source)
      absoluteDestination == relativeOrAbsolutePathToAbsolutePath(destination)
  IN  IF absoluteSource.kind = "throw" THEN Out(absoluteSource, f, FALSE)
      ELSE IF absoluteDestination.kind = "throw" THEN Out(absoluteDestination, f, FALSE)
      ELSE IF ~pathExists(f, Location(absoluteSource.val))
        THEN Out(Thrown("Source path does not exist"), f, FALSE)
      ELSE IF ~overwrite /\ pathExists(f, Location(absoluteDestination.val))
        THEN Out(Thrown("Destination path already exists"), f, FALSE)
      ELSE LET copied == fsCopy(f, Location(absoluteSource.val),
                                Location(absoluteDestination.val), overwrite)
           IN  IF copied.err # "" \/ copied.over THEN Rethrow(copied)
               ELSE Out(Returned(TRUE), copied.fs, FALSE)

----------------------------------------------------------------------------
(* Calls.  A caller makes one call at a time: pc is "idle" before a call *)
(* and "returned" once the call has settled, when last holds the call,   *)
(* its outcome and the disk it started from.                             *)

NoContent == StringContent(<<>>)

(* arguments only some calls take *)
NoArgs == [none |-> TRUE]

(* the call to execa a call made, with the options it handed over *)
NoProc == [called |-> FALSE]

Call(op, path, path2, content, flag, res, pre) ==
  [op |-> op, path |-> path, path2 |-> path2, content |-> content, flag |-> flag,
   res |-> res, pre |-> pre, args |-> NoArgs]

NoCall == Call("none", EmptyStr, EmptyStr, NoContent, FALSE, [kind |-> "none"], EmptyFs)

(* the caller takes the outcome and is free to call again *)
Return ==
  /\ pc = "returned"
  /\ pc' = "idle"
  /\ last' = NoCall
  /\ proc' = NoProc
  /\ UNCHANGED fs

----------------------------------------------------------------------------
(* Path resolution on its own *)

PathSegs == {"r", "a", "e", ".", "..", "..a"}

PathInputs ==
  {Str(a, s, t) : a \in BOOLEAN, s \in SeqsUpTo(PathSegs, MaxSegs), t \in BOOLEAN}
    \ {Str(a, <<>>, TRUE) : a \in BOOLEAN}

CallToAbsolutePath(p) ==
  /\ pc = "idle"
  /\ pc' = "returned"
  /\ last' = Call("toAbsolutePath", p, EmptyStr, NoContent, FALSE,
                  relativeOrAbsolutePathToAbsolutePath(p), fs)
  /\ UNCHANGED <<fs, proc>>

CallToRelativePath(p) ==
  /\ pc = "idle"
  /\ pc' = "returned"
  /\ last' = Call("toRelativePath", p, EmptyStr, NoContent, FALSE,
                  relativeOrAbsolutePathToRelativePath(p), fs)
  /\ UNCHANGED <<fs, proc>>

InitPath ==
  /\ fs = EmptyFs
  /\ last = NoCall
  /\ pc = "idle"
  /\ proc = NoProc

NextPath ==
  \/ pc = "idle" /\ \E p \in PathInputs : CallToAbsolutePath(p)
  \/ pc = "idle" /\ \E p \in PathInputs : CallToRelativePath(p)
  \/ Return

SpecPath == InitPath /\ [][NextPath]_vars

----------------------------------------------------------------------------
(* File operations on one disk *)

FsInputs ==
  {Rel(q) : q \in SeqsUpTo(FsNames, MaxDepth)}
    \cup {Rel(<<"..", "e">>), Rel(<<"a", "..", "b">>), Abs(<<"e">>), Abs(<<"r", "a">>)}

WriteContents ==
  {StringContent(<<"x">>), StringContent(<<"HS">>), StringContent(<<"HS", "LS">>),
   BufferContent(<<"80">>)}

(* the call stays within the modelled locations and the entry bound *)
Fits(out) == ~out.over /\ Cardinality(Entries(out.fs)) <= MaxNodes

Settle(op, path, path2, content, flag, out) ==
  /\ pc = "idle"
  /\ Fits(out)
  /\ pc' = "returned"
  /\ fs' = out.fs
  /\ last' = Call(op, path, path2, content, flag, out.res, fs)
  /\ UNCHANGED proc

CallWriteFile(p, c) ==
  Settle("writeFile", p, EmptyStr, c, FALSE, writeFile(fs, p, c))

CallDeleteFile(p) ==
  Settle("deleteFile", p, EmptyStr, NoContent, FALSE, deleteFile(fs, p))

CallReadFile(p) ==
  Settle("readFile", p, EmptyStr, NoContent, FALSE, readFile(fs, p))

CallRename(p, q) ==
  Settle("rename", p, q, NoContent, FALSE, rename(fs, p, q))

CallExists(p) ==
  Settle("exists", p, EmptyStr, NoContent, FALSE, exists(fs, p))

CallCreateDirectory(p, recursive) ==
  Settle("createDirectory", p, EmptyStr, NoContent, recursive,
         createDirectory(fs, p, recursive))

CallCopy(p, q, overwrite) ==
  Settle("copy", p, q, NoContent, overwrite, copy(fs, p, q, overwrite))

InitFs ==
  /\ fs = EmptyFs
  /\ last = NoCall
  /\ pc = "idle"
  /\ proc = NoProc

NextFs ==
  \/ pc = "idle" /\ \E p \in FsInputs, c \in WriteContents : CallWriteFile(p, c)
  \/ pc = "idle" /\ \E p \in FsInputs : CallDeleteFile(p)
  \/ pc = "idle" /\ \E p \in FsInputs : CallReadFile(p)
  \/ pc = "idle" /\ \E p \in FsInputs, q \in FsInputs : CallRename(p, q)
  \/ pc = "idle" /\ \E p \in FsInputs : CallExists(p)
  \/ pc = "idle" /\ \E p \in FsInputs, recursive \in BOOLEAN : CallCreateDirectory(p, recursive)
  \/ pc = "idle" /\ \E p \in FsInputs, q \in FsInputs, overwrite \in BOOLEAN : CallCopy(p, q, overwrite)
  \/ Return

SpecFs == InitFs /\ [][NextFs]_vars

----------------------------------------------------------------------------
(* LocalFileSystemProvider: executeCommand *)

(* const {timeoutSeconds = 60, ...} = options *)
DefaultTimeoutSeconds == 60

(* Math.max(5, ...) *)
MinTimeoutSeconds == 5

(* Math.min(..., 600) *)
MaxTimeoutSeconds == 600

Max(a, b) == IF a >= b THEN a ELSE b

Min(a, b) == IF a <= b THEN a ELSE b

(* options.timeoutSeconds: left out, NaN, or a number of seconds *)
Omitted == [kind |-> "omitted", n |-> 0]

NotANumber == [kind |-> "NaN", n |-> 0]

Seconds(n) == [kind |-> "number", n |-> n]

(* x || 60: 0 and NaN are falsy *)
OrDefault(x) == IF x.kind = "number" /\ x.n # 0 THEN x.n ELSE DefaultTimeoutSeconds

(* the upper clamp left out *)
effectiveTimeout_NoUpperClamp(option) ==
  LET timeoutSeconds == IF option.kind = "omitted" THEN Seconds(DefaultTimeoutSeconds)
                        ELSE option
  IN  Max(MinTimeoutSeconds, OrDefault(timeoutSeconds))

(* the lower clamp left out *)
effectiveTimeout_NoLowerClamp(option) ==
  LET timeoutSeconds == IF option.kind = "omitted" THEN Seconds(DefaultTimeoutSeconds)
                        ELSE option
  IN  Min(OrDefault(timeoutSeconds), MaxTimeoutSeconds)

(* const timeout = Math.max(5, Math.min(timeoutSeconds || 60, 600)) *)
effectiveTimeout(option) ==
  LET timeoutSeconds == IF option.kind = "omitted" THEN Seconds(DefaultTimeoutSeconds)
                        ELSE option
  IN  Max(MinTimeoutSeconds, Min(OrDefault(timeoutSeconds), MaxTimeoutSeconds))

(* command: undefined, a string, or an array of strings *)
NoCommand == [kind |-> "undefined", items |-> <<>>]

StringCommand(text) == [kind |-> "string", items |-> text]

ArrayCommand(items) == [kind |-> "array", items |-> items]

(* !command: undefined and the empty string are falsy, an array never is *)
Falsy(command) ==
  command.kind = "undefined" \/ (command.kind = "string" /\ command.items = <<>>)

(* String.prototype.trim *)
RECURSIVE trimStart(_)
trimStart(text) ==
  IF text # <<>> /\ Head(text) \in {" ", "\n"} THEN trimStart(Tail(text)) ELSE text

RECURSIVE trimEnd(_)
trimEnd(text) ==
  IF text # <<>> /\ text[Len(text)] \in {" ", "\n"} THEN trimEnd(Front(text)) ELSE text

trim(text) == trimStart(trimEnd(text))

(* what execa hands back or throws.  How the subprocess behaves is given:  *)
(* found says whether the executable can be started, seconds how long it   *)
(* runs (-1: it never exits by itself), code its exit code, flood whether  *)
(* it writes more than maxBuffer, stdout and stderr what it writes.        *)
execa(f, cwd, timeoutMs, behaviour) ==
  IF ~pathExists(f, Location(cwd)) \/ Node(f, Location(cwd)).t # "dir" \/ ~behaviour.found
    THEN [threw |-> TRUE, hasExitCode |-> FALSE, exitCode |-> 0,
          stdout |-> <<>>, stderr |-> <<>>, shortMessage |-> "spawn failed",
          message |-> "spawn failed"]
  ELSE IF behaviour.flood
    THEN [threw |-> TRUE, hasExitCode |-> FALSE, exitCode |-> 0,
          stdout |-> behaviour.stdout, stderr |-> behaviour.stderr,
          shortMessage |-> "maxBuffer exceeded",
          message |-> "maxBuffer exceeded"]
  ELSE IF behaviour.seconds < 0 \/ behaviour.seconds * 1000 > timeoutMs
    THEN [threw |-> TRUE, hasExitCode |-> FALSE, exitCode |-> 0,
          stdout |-> behaviour.stdout, stderr |-> behaviour.stderr,
          shortMessage |-> "timed out",
          message |-> "timed out"]
  ELSE IF behaviour.code # 0
    THEN [threw |-> TRUE, hasExitCode |-> TRUE, exitCode |-> behaviour.code,
          stdout |-> behaviour.stdout, stderr |-> behaviour.stderr,
          shortMessage |-> "failed with exit code",
          message |-> "failed with exit code"]
  ELSE [threw |-> FALSE, hasExitCode |-> TRUE, exitCode |-> 0,
        stdout |-> behaviour.stdout, stderr |-> behaviour.stderr, shortMessage |-> "",
        message |-> ""]

(* the object executeCommand returns; the provider sets no error key on success *)
CommandResult(ok, exitCode, stdout, stderr, hasError, error) ==
  [ok |-> ok, exitCode |-> exitCode, stdout |-> stdout, stderr |-> stderr,
   hasError |-> hasError, error |-> error]

Ran(res, p) == [res |-> res, proc |-> p]

(* exitCode: err.exitCode, whatever it is *)
caughtExitCode_NoFallback(hasExitCode, exitCode) == exitCode

(* typeof err.exitCode === "number" ? err.exitCode : 1 *)
caughtExitCode(hasExitCode, exitCode) == IF hasExitCode THEN exitCode ELSE 1

(* error: err.shortMessage, whatever it is *)
caughtError_NoFallback(shortMessage, message) == shortMessage

(* err.shortMessage || err.message || "Unknown error"; "" stands for a *)
(* property the error does not have                                    *)
caughtError(shortMessage, message) ==
  IF shortMessage # "" THEN shortMessage
  ELSE IF message # "" THEN message
  ELSE "Unknown error"

(* the error thrown inside the try block for an array without elements: a *)
(* plain Error, with a message and neither exitCode, stdout nor stderr    *)
EmptyArrayError ==
  [threw |-> TRUE, hasExitCode |-> FALSE, exitCode |-> 0, stdout |-> <<>>,
   stderr |-> <<>>, shortMessage |-> "", message |-> "Command array cannot be empty"]

(* the catch block: the result made of a caught error *)
caught(err) ==
  CommandResult(FALSE, caughtExitCode(err.hasExitCode, err.exitCode),
                trim(err.stdout), trim(err.stderr), TRUE,
                caughtError(err.shortMessage, err.message))

(* execOpts without its timeout: execa then sets no timer *)
execOpts_NoTimeout(cwd, timeout, command) ==
  [called |-> TRUE, cwd |-> cwd, timeout |-> 0, shell |-> command.kind = "string"]

(* execOpts: the options execa is called with *)
execOpts(cwd, timeout, command) ==
  [called |-> TRUE, cwd |-> cwd, timeout |-> timeout * 1000,
   shell |-> command.kind = "string"]

executeCommand(f, command, option, workingDirectory, behaviour) ==
  IF Falsy(command) THEN Ran(Thrown("Command is required"), NoProc)
  ELSE LET cwd == relativeOrAbsolutePathToAbsolutePath(workingDirectory)
       IN  IF cwd.kind = "throw" THEN Ran(cwd, NoProc)
           ELSE LET timeout == effectiveTimeout(option)
                IN  IF command.kind = "array" /\ command.items = <<>>
                      THEN Ran(Returned(caught(EmptyArrayError)), NoProc)
                    ELSE LET started == execOpts(cwd.val, timeout, command)
                             result  == execa(f, cwd.val, started.timeout, behaviour)
                         IN  IF result.threw
                               THEN Ran(Returned(caught(result)), started)
                               ELSE Ran(Returned(CommandResult(
                                          TRUE, result.exitCode,
                                          trim(result.stdout), trim(result.stderr),
                                          FALSE, "")),
                                        started)

(* the values of timeoutSeconds tried: around 0, the default and both clamps, *)
(* and one far above the upper clamp                                          *)
TimeoutOptions ==
  {Omitted, NotANumber}
    \cup {Seconds(n) : n \in (-3 .. MinTimeoutSeconds + 2)
                             \cup (DefaultTimeoutSeconds - 1 .. DefaultTimeoutSeconds + 1)
                             \cup (MaxTimeoutSeconds - 2 .. MaxTimeoutSeconds + 2)
                             \cup {10000}}

Commands ==
  {NoCommand, StringCommand(<<>>), StringCommand(<<"c">>), ArrayCommand(<<>>),
   ArrayCommand(<<"c", "x">>)}

WorkingDirectories == {Str(FALSE, <<".">>, TRUE), Rel(<<"a">>), Abs(<<"e">>)}

Behaviours ==
  [found : BOOLEAN, flood : BOOLEAN, seconds : {-1, 1, 30, 700}, code : {0, 1, 2},
   stdout : {<<"h", "\n">>}, stderr : {<<>>}]

CallExecuteCommand(command, option, workingDirectory, behaviour) ==
  LET ran == executeCommand(fs, command, option, workingDirectory, behaviour)
  IN  /\ pc = "idle"
      /\ pc' = "returned"
      /\ proc' = ran.proc
      /\ last' = [Call("executeCommand", workingDirectory, EmptyStr, NoContent, FALSE,
                       ran.res, fs)
                    EXCEPT !.args = [command |-> command, timeoutSeconds |-> option,
                                     behaviour |-> behaviour]]
      /\ UNCHANGED fs

InitExec ==
  /\ fs = EmptyFs
  /\ last = NoCall
  /\ pc = "idle"
  /\ proc = NoProc

NextExec ==
  \/ pc = "idle" /\ \E command \in Commands, option \in TimeoutOptions,
                       workingDirectory \in WorkingDirectories, behaviour \in Behaviours :
                     CallExecuteCommand(command, option, workingDirectory, behaviour)
  \/ Return

SpecExec == InitExec /\ [][NextExec]_vars

----------------------------------------------------------------------------
(* LocalFileSystemProvider: getDirectoryTree and grep.  An ignore filter is *)
(* the set of strings it answers true for.  fs.readdir lists a directory in *)
(* an order of the operating system's choosing: order ranks the names.      *)

(* if (ignoreFilter(relPath)) continue, with the test left out *)
skips_Never(ignoreFilter, relPath) == FALSE

(* ignoreFilter(relPath) *)
skips(ignoreFilter, relPath) == relPath \in ignoreFilter

(* what a walk did: the error that ended it ("" for none), the strings it *)
(* yielded, the strings it asked the ignore filter about, and the         *)
(* directories it listed                                                  *)
Walked(err, yields, asked, listed) ==
  [err |-> err, yields |-> yields, asked |-> asked, listed |-> listed]

NothingWalked == Walked("", <<>>, <<>>, <<>>)

(* one walk after another, the yields of the second put first *)
Then_SecondFirst(first, second) ==
  IF first.err # "" THEN first
  ELSE Walked(second.err, second.yields \o first.yields, first.asked \o second.asked,
              first.listed \o second.listed)

(* one walk after another; an error ends both *)
Then(first, second) ==
  IF first.err # "" THEN first
  ELSE Walked(second.err, first.yields \o second.yields, first.asked \o second.asked,
              first.listed \o second.listed)

(* `${relPath}/` *)
WithSlash(p) == Str(p.abs, p.segs, TRUE)

RECURSIVE getDirectoryTree(_, _, _, _, _)
RECURSIVE walkItems(_, _, _, _, _, _)
getDirectoryTree(f, dir, ignoreFilter, recursive, order) ==
  LET absoluteDir == resolve(rootDirectory, dir)
      IsItem(name) == Node(f, Location(absoluteDir) \o <<name>>).t # "none"
  IN  IF ~pathExists(f, Location(absoluteDir)) THEN Walked("ENOENT", <<>>, <<>>, <<>>)
      ELSE IF Node(f, Location(absoluteDir)).t # "dir"
        THEN Walked("ENOTDIR", <<>>, <<>>, <<>>)
      ELSE Then(Walked("", <<>>, <<>>, <<absoluteDir>>),
                walkItems(f, absoluteDir, SelectSeq(order, IsItem), ignoreFilter,
                          recursive, order))

(* the loop with an ignored directory walked all the same and what it *)
(* yields dropped afterwards                                         *)
walkItems_FiltersAfterwards(f, absoluteDir, items, ignoreFilter, recursive, order) ==
  IF items = <<>> THEN NothingWalked
  ELSE LET itemPath == join(absoluteDir, Rel(<<Head(items)>>))
           relPath  == relative(rootDirectory, itemPath)
           below    == getDirectoryTree(f, relPath, ignoreFilter, TRUE, order)
           item ==
             IF skips(ignoreFilter, relPath)
               THEN IF Node(f, Location(itemPath)).t = "dir" /\ recursive
                      THEN Walked("", <<>>, <<relPath>> \o below.asked, below.listed)
                      ELSE Walked("", <<>>, <<relPath>>, <<>>)
             ELSE IF Node(f, Location(itemPath)).t = "dir"
               THEN Then(Walked("", <<WithSlash(relPath)>>, <<relPath>>, <<>>),
                         IF recursive THEN below ELSE NothingWalked)
               ELSE Walked("", <<relPath>>, <<relPath>>, <<>>)
       IN  Then(item, walkItems(f, absoluteDir, Tail(items), ignoreFilter, recursive, order))

walkItems(f, absoluteDir, items, ignoreFilter, recursive, order) ==
  IF items = <<>> THEN NothingWalked
  ELSE LET itemPath == join(absoluteDir, Rel(<<Head(items)>>))
           relPath  == relative(rootDirectory, itemPath)
           item ==
             IF skips(ignoreFilter, relPath) THEN Walked("", <<>>, <<relPath>>, <<>>)
             ELSE IF Node(f, Location(itemPath)).t = "dir"
               THEN Then(Walked("", <<WithSlash(relPath)>>, <<relPath>>, <<>>),
                         IF recursive
                           THEN getDirectoryTree(f, relPath, ignoreFilter, TRUE, order)
                           ELSE NothingWalked)
               ELSE Walked("", <<relPath>>, <<relPath>>, <<>>)
       IN  Then(item, walkItems(f, absoluteDir, Tail(items), ignoreFilter, recursive, order))

(* String.prototype.split("\n") *)
RECURSIVE split(_)
split(text) ==
  IF \A i \in 1..Len(text) : text[i] # "\n" THEN <<text>>
  ELSE LET k == CHOOSE i \in 1..Len(text) :
                  text[i] = "\n" /\ \A j \in 1..(i - 1) : text[j] # "\n"
       IN  <<SubSeq(text, 1, k - 1)>> \o split(SubSeq(text, k + 1, Len(text)))

(* Array.prototype.join("\n") *)
RECURSIVE joinLines(_)
joinLines(lines) ==
  IF lines = <<>> THEN <<>>
  ELSE IF Len(lines) = 1 THEN lines[1]
  ELSE lines[1] \o <<"\n">> \o joinLines(Tail(lines))

(* String.prototype.includes *)
includes(line, searchString) ==
  \E i \in 1..(Len(line) - Len(searchString) + 1) :
    SubSeq(line, i, i + Len(searchString) - 1) = searchString

(* Array.prototype.slice(start, end) for 0 <= start, on 0-based indices *)
slice(lines, start, end) == SubSeq(lines, start + 1, Min(end, Len(lines)))

Null == [null |-> TRUE, text |-> <<>>]

Text(t) == [null |-> FALSE, text |-> t]

(* the context only when both sides are asked for *)
contextContent_NeedsBoth(lines, lineNum, linesBefore, linesAfter) ==
  LET startLine == Max(0, lineNum - linesBefore)
      endLine   == Min(Len(lines) - 1, lineNum + linesAfter)
  IN  IF linesBefore > 0 /\ linesAfter > 0
        THEN Text(joinLines(slice(lines, startLine, endLine + 1)))
        ELSE Null

(* contextContent for the match at 0-based index lineNum *)
contextContent(lines, lineNum, linesBefore, linesAfter) ==
  LET startLine == Max(0, lineNum - linesBefore)
      endLine   == Min(Len(lines) - 1, lineNum + linesAfter)
  IN  IF linesBefore > 0 \/ linesAfter > 0
        THEN Text(joinLines(slice(lines, startLine, endLine + 1)))
        ELSE Null

(* getFile of the provider's base class: readFile(filePath, "utf8") *)
getFile(f, filePath) == readFile(f, filePath)

(* the results for the lines of one file from 0-based index lineNum on *)
RECURSIVE grepLines(_, _, _, _, _, _)
grepLines(file, lines, lineNum, searchString, linesBefore, linesAfter) ==
  IF lineNum >= Len(lines) THEN <<>>
  ELSE (IF includes(lines[lineNum + 1], searchString)
          THEN <<[file |-> relative(rootDirectory, file), line |-> lineNum + 1,
                  match |-> lines[lineNum + 1],
                  content |-> contextContent(lines, lineNum, linesBefore, linesAfter)]>>
          ELSE <<>>)
       \o grepLines(file, lines, lineNum + 1, searchString, linesBefore, linesAfter)

(* the loop over filesToSearch, ended by the first file that cannot be read *)
RECURSIVE grepFiles(_, _, _, _, _)
grepFiles_StopsAtFailure(f, filesToSearch, searchString, linesBefore, linesAfter) ==
  IF filesToSearch = <<>> THEN <<>>
  ELSE LET file    == Head(filesToSearch)
           content == getFile(f, relative(rootDirectory, file)).res
       IN  IF content.kind = "throw" THEN <<>>
           ELSE (IF content.val = <<>> THEN <<>>
                 ELSE grepLines(file, split(content.val), 0, searchString, linesBefore,
                                linesAfter))
                \o grepFiles(f, Tail(filesToSearch), searchString, linesBefore, linesAfter)

(* the loop over filesToSearch: a file that cannot be read is passed over *)
grepFiles(f, filesToSearch, searchString, linesBefore, linesAfter) ==
  IF filesToSearch = <<>> THEN <<>>
  ELSE LET file    == Head(filesToSearch)
           content == getFile(f, relative(rootDirectory, file)).res
       IN  (IF content.kind = "throw" \/ content.val = <<>> THEN <<>>
            ELSE grepLines(file, split(content.val), 0, searchString, linesBefore,
                           linesAfter))
           \o grepFiles(f, Tail(filesToSearch), searchString, linesBefore, linesAfter)

(* what a search did: its outcome, the directories it listed, the paths *)
(* it gave to getFile and the strings it asked the ignore filter about  *)
Searched(res, listed, read, asked) ==
  [res |-> res, listed |-> listed, read |-> read, asked |-> asked]

grep(f, searchString, ignoreFilter, linesBefore, linesAfter, order) ==
  IF searchString = <<>> THEN Searched(Thrown("Search string is required"), <<>>, <<>>, <<>>)
  ELSE LET tree == getDirectoryTree(f, EmptyStr, ignoreFilter, TRUE, order)
           allFiles == [i \in 1..Len(tree.yields) |-> join(rootDirectory, tree.yields[i])]
           Kept(file) == file \notin ignoreFilter
           filesToSearch == SelectSeq(allFiles, Kept)
       IN  IF tree.err # "" THEN Searched(Thrown(tree.err), tree.listed, <<>>, tree.asked)
           ELSE Searched(Returned(grepFiles(f, filesToSearch, searchString, linesBefore,
                                            linesAfter)),
                         tree.listed, filesToSearch, tree.asked \o allFiles)

----------------------------------------------------------------------------
(* Walks and searches of a disk that writeFile and createDirectory built *)

(* most lines of context asked for on either side of a match *)
MaxContext == 1

BelowRoot == SeqsUpTo(FsNames, MaxDepth) \ {<<>>}

TreeInputs == {Rel(q) : q \in BelowRoot}

(* the root as "", the directories below it, and one directory outside it *)
WalkDirs == {EmptyStr, Abs(<<"e">>)} \cup TreeInputs

(* filters that ignore nothing or one root-relative path *)
WalkFilters == {{}} \cup {{p} : p \in TreeInputs}

(* and filters that answer true for one absolute path only *)
GrepFilters == WalkFilters \cup {{join(rootDirectory, p)} : p \in TreeInputs}

Orders ==
  {order \in [1..Cardinality(FsNames) -> FsNames] :
     \A i, j \in 1..Cardinality(FsNames) : order[i] = order[j] => i = j}

WalkContents == {StringContent(<<"x">>)}

GrepContents ==
  {StringContent(<<"y", "\n", "x", "x", "\n", "y">>), StringContent(<<"x", "\n", "y">>)}

SearchStrings == {<<>>, <<"x">>, <<"x", "x">>}

CallGetDirectoryTree(dir, ignoreFilter, recursive, order) ==
  LET tree == getDirectoryTree(fs, dir, ignoreFilter, recursive, order)
  IN  /\ pc = "idle"
      /\ pc' = "returned"
      /\ last' = [Call("getDirectoryTree", dir, EmptyStr, NoContent, recursive,
                       IF tree.err # "" THEN Thrown(tree.err) ELSE Returned(tree.yields),
                       fs)
                    EXCEPT !.args = [ignoreFilter |-> ignoreFilter, order |-> order,
                                     asked |-> tree.asked, listed |-> tree.listed]]
      /\ UNCHANGED <<fs, proc>>

CallGrep(searchString, ignoreFilter, linesBefore, linesAfter, order) ==
  \E searched \in {grep(fs, searchString, ignoreFilter, linesBefore, linesAfter, order)} :
      /\ pc = "idle"
      /\ pc' = "returned"
      /\ last' = [Call("grep", EmptyStr, EmptyStr, StringContent(searchString), FALSE,
                       searched.res, fs)
                    EXCEPT !.args = [ignoreFilter |-> ignoreFilter, order |-> order,
                                     linesBefore |-> linesBefore,
                                     linesAfter |-> linesAfter,
                                     listed |-> searched.listed, read |-> searched.read,
                                     asked |-> searched.asked]]
      /\ UNCHANGED <<fs, proc>>

NextWalk ==
  \/ pc = "idle" /\ \E p \in TreeInputs, c \in WalkContents : CallWriteFile(p, c)
  \/ pc = "idle" /\ \E p \in TreeInputs : CallCreateDirectory(p, TRUE)
  \/ pc = "idle" /\ \E dir \in WalkDirs, ignoreFilter \in WalkFilters,
                       recursive \in BOOLEAN, order \in Orders :
                     CallGetDirectoryTree(dir, ignoreFilter, recursive, order)
  \/ Return

SpecWalk == InitFs /\ [][NextWalk]_vars

NextGrep ==
  \/ pc = "idle" /\ \E p \in TreeInputs, c \in GrepContents : CallWriteFile(p, c)
  \/ pc = "idle" /\ \E p \in TreeInputs : CallCreateDirectory(p, TRUE)
  \/ pc = "idle" /\ \E searchString \in SearchStrings, ignoreFilter \in GrepFilters,
                       linesBefore \in 0..MaxContext, linesAfter \in 0..MaxContext,
                       order \in Orders :
                     CallGrep(searchString, ignoreFilter, linesBefore, linesAfter, order)
  \/ Return

SpecGrep == InitFs /\ [][NextGrep]_vars

----------------------------------------------------------------------------
(* LocalFileSystemProvider: glob.  A pattern is a sequence of segments: a  *)
(* name, "*" (any one name) or "**" (any number of directories, or         *)
(* anything when it comes last).                                           *)

(* names on the disks globbed: a plain name and a dotfile *)
GlobNames == {"a", ".h"}

IsDotName(name) == name \in {".h"}

(* one pattern segment against one name; without dot a wildcard passes *)
(* over names that begin with "."                                      *)
SegmentMatches(seg, name, dot) ==
  IF seg \in {"*", "**"} THEN dot \/ ~IsDotName(name) ELSE seg = name

RECURSIVE GlobMatches(_, _, _)
GlobMatches(pattern, segs, dot) ==
  IF pattern = <<>> THEN segs = <<>>
  ELSE IF Head(pattern) = "**"
    THEN \/ Tail(pattern) # <<>> /\ GlobMatches(Tail(pattern), segs, dot)
         \/ /\ segs # <<>>
            /\ SegmentMatches("**", Head(segs), dot)
            /\ \/ GlobMatches(pattern, Tail(segs), dot)
               \/ Tail(pattern) = <<>> /\ Tail(segs) = <<>>
  ELSE /\ segs # <<>>
       /\ SegmentMatches(Head(pattern), Head(segs), dot)
       /\ GlobMatches(Tail(pattern), Tail(segs), dot)

(* a set as a sequence: glob promises no order, this one stands for any *)
RECURSIVE SetToSeq(_)
SetToSeq(S) ==
  IF S = {} THEN <<>>
  ELSE LET x == CHOOSE y \in S : TRUE IN <<x>> \o SetToSeq(S \ {x})

(* glob.sync(pattern, {cwd, dot, nodir, absolute: false}): the entries  *)
(* below cwd that match, as paths relative to cwd; failed says that the *)
(* expansion throws                                                     *)
globSync(f, pattern, cwd, dot, nodir, failed) ==
  IF failed THEN Thrown("expansion failed")
  ELSE Returned(SetToSeq(
         {Rel(SubSeq(loc, Len(Location(cwd)) + 1, Len(loc))) :
            loc \in {q \in DOMAIN f :
                       /\ IsPrefix(Location(cwd), q)
                       /\ q # Location(cwd)
                       /\ pathExists(f, q)
                       /\ nodir => Node(f, q).t # "dir"
                       /\ GlobMatches(pattern,
                                      SubSeq(q, Len(Location(cwd)) + 1, Len(q)), dot)}}))

(* glob that hands back what glob.sync found, unfiltered *)
glob_NoIgnoreFilter(f, pattern, ignoreFilter, failed) ==
  LET found == globSync(f, pattern, rootDirectory, TRUE, TRUE, failed)
  IN  IF found.kind = "throw" THEN Thrown("Glob operation failed")
      ELSE Returned(found.val)

glob(f, pattern, ignoreFilter, failed) ==
  LET found == globSync(f, pattern, rootDirectory, TRUE, TRUE, failed)
      Kept(file) == file \notin ignoreFilter
  IN  IF found.kind = "throw" THEN Thrown("Glob operation failed")
      ELSE Returned(SelectSeq(found.val, Kept))

(* Globbing a disk that writeFile and createDirectory built *)

GlobLocations ==
  {<<>>} \cup {rootDirectory.segs \o q : q \in SeqsUpTo(GlobNames, MaxDepth)}

GlobFs ==
  [loc \in GlobLocations |-> IF IsPrefix(loc, rootDirectory.segs) THEN DirNode ELSE NoNode]

GlobInputs == {Rel(q) : q \in SeqsUpTo(GlobNames, MaxDepth) \ {<<>>}}

GlobPatterns ==
  {<<"*">>, <<"**">>, <<".h">>, <<"a", "*">>, <<"*", ".h">>, <<"**", "a">>, <<"a", "**">>}

GlobFilters == {{}} \cup {{p} : p \in GlobInputs}

CallGlob(pattern, ignoreFilter, failed) ==
  /\ pc = "idle"
  /\ pc' = "returned"
  /\ last' = [Call("glob", EmptyStr, EmptyStr, NoContent, FALSE,
                   glob(fs, pattern, ignoreFilter, failed), fs)
                EXCEPT !.args = [pattern |-> pattern, ignoreFilter |-> ignoreFilter,
                                 failed |-> failed]]
  /\ UNCHANGED <<fs, proc>>

InitGlob ==
  /\ fs = GlobFs
  /\ last = NoCall
  /\ pc = "idle"
  /\ proc = NoProc

NextGlob ==
  \/ pc = "idle" /\ \E p \in GlobInputs, c \in WalkContents : CallWriteFile(p, c)
  \/ pc = "idle" /\ \E p \in GlobInputs : CallCreateDirectory(p, TRUE)
  \/ pc = "idle" /\ \E pattern \in GlobPatterns, ignoreFilter \in GlobFilters,
                       failed \in BOOLEAN :
                     CallGlob(pattern, ignoreFilter, failed)
  \/ Return

SpecGlob == InitGlob /\ [][NextGlob]_vars

----------------------------------------------------------------------------
(* Calls with paths inside and outside the root, on a machine that has a *)
(* directory /e beside the root                                          *)

OutsideFs == [EmptyFs EXCEPT ![<<"e">>] = DirNode]

ConfineInputs == {Abs(<<"e">>), Abs(<<"r", "a">>), Rel(<<"a">>), Rel(<<"b">>)}

(* a subprocess that starts, writes a line and exits with code 0 at once *)
QuickExit ==
  [found |-> TRUE, flood |-> FALSE, seconds |-> 1, code |-> 0,
   stdout |-> <<"h", "\n">>, stderr |-> <<>>]

InitOutside ==
  /\ fs = OutsideFs
  /\ last = NoCall
  /\ pc = "idle"
  /\ proc = NoProc

NextOutside ==
  \/ pc = "idle" /\ \E p \in ConfineInputs, c \in WalkContents : CallWriteFile(p, c)
  \/ pc = "idle" /\ \E p \in ConfineInputs : CallReadFile(p)
  \/ pc = "idle" /\ \E p \in ConfineInputs : CallDeleteFile(p)
  \/ pc = "idle" /\ \E p \in ConfineInputs : CallExists(p)
  \/ pc = "idle" /\ \E p \in ConfineInputs, recursive \in BOOLEAN :
                     CallCreateDirectory(p, recursive)
  \/ pc = "idle" /\ \E dir \in ConfineInputs, recursive \in BOOLEAN, order \in Orders :
                     CallGetDirectoryTree(dir, {}, recursive, order)
  \/ pc = "idle" /\ \E command \in {StringCommand(<<"c">>), ArrayCommand(<<"c", "x">>)},
                       workingDirectory \in ConfineInputs :
                     CallExecuteCommand(command, Omitted, workingDirectory, QuickExit)
  \/ Return

SpecOutside == InitOutside /\ [][NextOutside]_vars

----------------------------------------------------------------------------
(* Properties of path resolution and of the file operations *)

(* the location a path argument names once resolved against the root *)
Loc(p) == Location(resolve(rootDirectory, p))

(* the argument resolves, and to a location in the root directory *)
RootConfined(p) ==
  /\ relativeOrAbsolutePathToAbsolutePath(p).kind = "ok"
  /\ IsPrefix(rootDirectory.segs, Loc(p))

(* C1: whatever string it is given, relativeOrAbsolutePathToAbsolutePath *)
(* either throws or returns a path that is the root directory or lies    *)
(* below it.                                                             *)
C1_NeverOutsideRoot ==
  (last.op = "toAbsolutePath" /\ last.res.kind = "ok") => InsideRoot(last.res.val)

(* C2: exists never throws: it returns false when resolving its argument *)
(* throws, as for an absolute path outside the root, and otherwise       *)
(* whether the resolved path is on the disk; it changes nothing.         *)
C2_ExistsIsTotal ==
  last.op = "exists" =>
    /\ last.res.kind = "ok"
    /\ last.res.val \in BOOLEAN
    /\ (last.path.abs /\ ~InsideRoot(last.path)) => last.res.val = FALSE
    /\ relativeOrAbsolutePathToAbsolutePath(last.path).kind = "throw"
         => last.res.val = FALSE
    /\ relativeOrAbsolutePathToAbsolutePath(last.path).kind = "ok"
         => last.res.val = (Node(fs, Loc(last.path)).t # "none")
    /\ fs = last.pre

(* exists answered false for an absolute path outside the root that is on the disk *)
C2_Witness ==
  /\ last.op = "exists"
  /\ last.path.abs
  /\ ~InsideRoot(last.path)
  /\ Node(fs, Location(last.path)).t = "file"
  /\ last.res = Returned(FALSE)

(* C3 as stated: after a successful writeFile(p, c) on a root-confined p, *)
(* reading p gives back exactly c, for every content c.                   *)
C3_RoundTripEveryContent ==
  (last.op = "writeFile" /\ last.res.kind = "ok" /\ RootConfined(last.path)) =>
    readFile(fs, last.path).res = Returned(last.content.data)

(* C3 amended: after a successful writeFile(p, c) on a root-confined p    *)
(* with c a string in which no surrogate stands alone, reading p gives    *)
(* back exactly c, whatever p held before and whether or not its parent   *)
(* directories existed.                                                   *)
C3_RoundTripWellFormed ==
  (/\ last.op = "writeFile"
   /\ last.res.kind = "ok"
   /\ RootConfined(last.path)
   /\ last.content.kind = "string"
   /\ WellFormed(last.content.data)) =>
    readFile(fs, last.path).res = Returned(last.content.data)

(* a surrogate pair was written over a file holding other bytes *)
C3_Witness ==
  /\ last.op = "writeFile"
  /\ last.res.kind = "ok"
  /\ RootConfined(last.path)
  /\ last.content = StringContent(<<"HS", "LS">>)
  /\ Node(last.pre, Loc(last.path)).t = "file"
  /\ Node(last.pre, Loc(last.path)).bytes # <<"F0">>
  /\ readFile(fs, last.path).res = Returned(<<"HS", "LS">>)

(* what lies at and below location new now is what lay at and below old before *)
SameSubtree(before, old, after, new) ==
  \A q \in DOMAIN before :
    IsPrefix(old, q) =>
      /\ before[q].t # "none" => Moved(old, new, q) \in DOMAIN after
      /\ Node(after, Moved(old, new, q)) = before[q]

(* C4: rename(a, b) throws when a does not exist or b exists, a = b      *)
(* included; when it returns true, exists(a) is false, exists(b) is true *)
(* and b holds what a held before the call.                              *)
C4_Rename ==
  last.op = "rename" =>
    /\ (~exists(last.pre, last.path).res.val \/ exists(last.pre, last.path2).res.val)
         => last.res.kind = "throw"
    /\ last.res.kind = "ok" =>
         /\ last.res.val = TRUE
         /\ exists(fs, last.path).res = Returned(FALSE)
         /\ exists(fs, last.path2).res = Returned(TRUE)
         /\ SameSubtree(last.pre, Loc(last.path), fs, Loc(last.path2))

(* a file was renamed into a directory that rename made for it *)
C4_Witness ==
  /\ last.op = "rename"
  /\ last.res = Returned(TRUE)
  /\ Node(last.pre, Loc(last.path)).t = "file"
  /\ Node(last.pre, Front(Loc(last.path2))).t = "none"
  /\ Node(fs, Front(Loc(last.path2))).t = "dir"
  /\ Node(fs, Loc(last.path2)) = Node(last.pre, Loc(last.path))

(* the copy calls C5 speaks of: the source is a regular file on the disk *)
(* and the destination is root-confined                                  *)
CopyOfFile ==
  /\ last.op = "copy"
  /\ relativeOrAbsolutePathToAbsolutePath(last.path).kind = "ok"
  /\ pathExists(last.pre, Loc(last.path))
  /\ Node(last.pre, Loc(last.path)).t = "file"
  /\ RootConfined(last.path2)

(* the copy left the source as it was and the destination reads as the source *)
CopiedFile ==
  /\ last.res = Returned(TRUE)
  /\ Node(fs, Loc(last.path)) = Node(last.pre, Loc(last.path))
  /\ readFile(fs, last.path2).res.kind = "ok"
  /\ readFile(fs, last.path2).res = readFile(fs, last.path).res

(* C5 as stated: without overwrite, copy throws when b exists and leaves *)
(* b as it was; with overwrite it succeeds for every root-confined b,    *)
(* b then reads as a and a is unchanged.                                 *)
C5_OverwriteAlwaysSucceeds ==
  CopyOfFile =>
    /\ (~last.flag /\ pathExists(last.pre, Loc(last.path2)))
         => (last.res.kind = "throw" /\ fs = last.pre)
    /\ last.flag => CopiedFile

(* a destination copy can overwrite: absent or a regular file other than *)
(* the source, and below no regular file                                 *)
Overwritable(f, src, dest) ==
  /\ dest # src
  /\ Node(f, dest).t # "dir"
  /\ ~UnderFile(f, dest)

(* C5 amended: without overwrite, copy throws when b exists and leaves b *)
(* as it was; with overwrite it succeeds when b is absent or a regular   *)
(* file other than a and no ancestor of b is a regular file, b then      *)
(* reads as a and a is unchanged; with overwrite it throws when b is a   *)
(* itself, a directory, or below a regular file.                         *)
C5_Copy ==
  CopyOfFile =>
    /\ (~last.flag /\ pathExists(last.pre, Loc(last.path2)))
         => (last.res.kind = "throw" /\ fs = last.pre)
    /\ (last.flag /\ Overwritable(last.pre, Loc(last.path), Loc(last.path2)))
         => CopiedFile
    /\ (last.flag /\ ~Overwritable(last.pre, Loc(last.path), Loc(last.path2)))
         => last.res.kind = "throw"

(* a file was copied with overwrite over a file holding other bytes *)
C5_Witness ==
  /\ CopyOfFile
  /\ last.flag
  /\ Node(last.pre, Loc(last.path2)).t = "file"
  /\ Node(last.pre, Loc(last.path2)).bytes # Node(last.pre, Loc(last.path)).bytes
  /\ CopiedFile

----------------------------------------------------------------------------
(* Properties of getDirectoryTree and grep *)

(* the root-relative path of a yielded entry: the string less a trailing "/" *)
EntryPath(yielded) == Rel(yielded.segs)

(* the root-relative paths of the directories above an entry, below the root *)
Ancestors(p) == {Rel(SubSeq(p.segs, 1, n)) : n \in 1..(Len(p.segs) - 1)}

(* the root-relative path of the directory a walk starts in *)
StartDir == relative(rootDirectory, resolve(rootDirectory, last.path))

(* C6 as stated: whatever the start directory, the ignore filter and      *)
(* recursive, getDirectoryTree yields no entry whose root-relative path   *)
(* the filter matches and no entry with an ancestor directory whose       *)
(* root-relative path the filter matches.                                 *)
C6_NoIgnoredAncestor ==
  (last.op = "getDirectoryTree" /\ last.res.kind = "ok") =>
    \A i \in 1..Len(last.res.val) :
      /\ EntryPath(last.res.val[i]) \notin last.args.ignoreFilter
      /\ \A a \in Ancestors(EntryPath(last.res.val[i])) : a \notin last.args.ignoreFilter

(* C6 amended: getDirectoryTree(dir, ...) yields no entry whose           *)
(* root-relative path the filter matches and no entry with an ancestor    *)
(* directory below dir whose root-relative path the filter matches; dir   *)
(* itself and the directories above it are not put to the filter.         *)
C6_NoIgnoredBelowDir ==
  (last.op = "getDirectoryTree" /\ last.res.kind = "ok") =>
    \A i \in 1..Len(last.res.val) :
      /\ EntryPath(last.res.val[i]) \notin last.args.ignoreFilter
      /\ \A a \in Ancestors(EntryPath(last.res.val[i])) :
           (IsPrefix(StartDir.segs, a.segs) /\ a # StartDir)
             => a \notin last.args.ignoreFilter

(* a recursive walk of the root yielded entries and passed over a directory *)
(* that holds an entry, the filter matching the directory only              *)
C6_Witness ==
  /\ last.op = "getDirectoryTree"
  /\ last.res.kind = "ok"
  /\ last.flag
  /\ last.path = EmptyStr
  /\ last.res.val # <<>>
  /\ \E p \in last.args.ignoreFilter :
       /\ Node(fs, Loc(p)).t = "dir"
       /\ Children(fs, Loc(p)) # {}

(* the regular files the ignore-filtered walk of the root reaches *)
ReachedFiles(f, ignoreFilter, order) ==
  LET tree == getDirectoryTree(f, EmptyStr, ignoreFilter, TRUE, order)
  IN  {tree.yields[i] : i \in {j \in 1..Len(tree.yields) :
                                 Node(f, Loc(tree.yields[j])).t = "file"}}

(* one result for every line, of a file reached, that contains the string *)
MatchingLines(f, searchString, ignoreFilter, order) ==
  UNION {LET lines == split(readFile(f, file).res.val)
         IN  {[file |-> file, line |-> n, match |-> lines[n]] :
                n \in {k \in 1..Len(lines) : includes(lines[k], searchString)}} :
         file \in ReachedFiles(f, ignoreFilter, order)}

FileLineMatch(result) ==
  [file |-> result.file, line |-> result.line, match |-> result.match]

(* C7: for a non-empty search string grep returns exactly one result for  *)
(* each line, of a regular file the ignore-filtered walk of the root      *)
(* reaches, that contains the string: 1-based line number, the whole      *)
(* line as match, the root-relative path as file; nothing else.           *)
C7_OneResultPerMatchingLine ==
  (last.op = "grep" /\ last.content.data # <<>>) =>
    /\ last.res.kind = "ok"
    /\ {FileLineMatch(last.res.val[i]) : i \in 1..Len(last.res.val)}
         = MatchingLines(fs, last.content.data, last.args.ignoreFilter, last.args.order)
    /\ Len(last.res.val)
         = Cardinality(MatchingLines(fs, last.content.data, last.args.ignoreFilter,
                                     last.args.order))

(* C7 holds of every call whose filter answers false for absolute paths *)
C7_WithRelativeFilter ==
  (last.op = "grep" /\ \A p \in last.args.ignoreFilter : ~p.abs)
    => C7_OneResultPerMatchingLine

----------------------------------------------------------------------------
(* Properties of executeCommand *)

ExecuteCommandWith(option) ==
  /\ last.op = "executeCommand"
  /\ last.args.timeoutSeconds = option

C10_TimeoutClamped ==
  (last.op = "executeCommand" /\ proc.called) =>
    /\ proc.timeout >= 5000
    /\ proc.timeout <= 600000
    /\ last.args.timeoutSeconds.kind = "omitted" => proc.timeout = 60000
    /\ (/\ last.args.timeoutSeconds.kind = "number"
        /\ last.args.timeoutSeconds.n >= 5
        /\ last.args.timeoutSeconds.n <= 600)
         => proc.timeout = last.args.timeoutSeconds.n * 1000

(* a negative timeoutSeconds was raised to 5 seconds *)
C10_Witness ==
  /\ last.op = "executeCommand"
  /\ proc.called
  /\ last.args.timeoutSeconds.kind = "number"
  /\ last.args.timeoutSeconds.n < 0
  /\ proc.timeout = 5000

(* a command with nothing in it: absent, the empty string, or an array *)
(* without elements                                                   *)
EmptyCommand(command) == Falsy(command) \/ command = ArrayCommand(<<>>)

(* C11: executeCommand raises, and returns no result object, when command *)
(* is empty or absent and also when it is an array with zero elements; in *)
(* both cases no subprocess is started.                                   *)
C11_EmptyCommandRaises ==
  (last.op = "executeCommand" /\ EmptyCommand(last.args.command)) =>
    /\ last.res.kind = "throw"
    /\ ~proc.called

(* the subprocess of the last call could not be started *)
SpawnFailed ==
  \/ ~last.args.behaviour.found
  \/ Node(last.pre, Loc(last.path)).t # "dir"

(* it wrote more than maxBuffer *)
Flooded == ~SpawnFailed /\ last.args.behaviour.flood

(* it was still running when the timeout handed to execa ran out *)
TimedOut ==
  /\ ~SpawnFailed
  /\ ~Flooded
  /\ \/ last.args.behaviour.seconds < 0
     \/ last.args.behaviour.seconds * 1000 > proc.timeout

(* it ran to its end and left a non-zero exit code *)
ExitedNonZero ==
  ~SpawnFailed /\ ~Flooded /\ ~TimedOut /\ last.args.behaviour.code # 0

(* C12: for a non-empty command and a working directory inside the root  *)
(* executeCommand never throws: a non-zero exit, a timeout, a spawn      *)
(* failure and output beyond the buffer limit each give a returned       *)
(* result with ok = false, whose exitCode is the exit code of the        *)
(* subprocess when one was captured and 1 otherwise.                     *)
C12_FailureIsReturned ==
  (/\ last.op = "executeCommand"
   /\ ~EmptyCommand(last.args.command)
   /\ RootConfined(last.path)) =>
    /\ last.res.kind = "ok"
    /\ proc.called
    /\ (SpawnFailed \/ Flooded \/ TimedOut) =>
         (~last.res.val.ok /\ last.res.val.exitCode = 1)
    /\ ExitedNonZero =>
         (~last.res.val.ok /\ last.res.val.exitCode = last.args.behaviour.code)

(* a subprocess was started in the root, outran its timeout and came back *)
(* as a result with ok = false and exitCode 1                             *)
C12_Witness ==
  /\ last.op = "executeCommand"
  /\ ~EmptyCommand(last.args.command)
  /\ RootConfined(last.path)
  /\ TimedOut
  /\ last.res.kind = "ok"
  /\ ~last.res.val.ok
  /\ last.res.val.exitCode = 1

(* C13: in every result executeCommand returns, ok = true implies        *)
(* exitCode = 0 and no error diagnostic, and ok = false implies an error *)
(* diagnostic that is a non-empty string; no result has ok = true with a *)
(* non-zero exitCode.                                                    *)
C13_ResultConsistent ==
  (last.op = "executeCommand" /\ last.res.kind = "ok") =>
    /\ last.res.val.ok => (last.res.val.exitCode = 0 /\ ~last.res.val.hasError)
    /\ ~last.res.val.ok => (last.res.val.hasError /\ last.res.val.error # "")

(* an array without elements came back as a result with ok = false and the *)
(* diagnostic of the error thrown for it                                  *)
C13_Witness ==
  /\ last.op = "executeCommand"
  /\ last.args.command = ArrayCommand(<<>>)
  /\ last.res.kind = "ok"
  /\ ~last.res.val.ok
  /\ last.res.val.error = "Command array cannot be empty"

----------------------------------------------------------------------------
(* Properties of createDirectory, deleteFile and readFile *)

(* C14: createDirectory is idempotent in sequential use: for a            *)
(* root-confined path and either value of recursive, on a path that is a  *)
(* directory already it returns true and leaves the disk as it was, so a  *)
(* second call right after a successful one succeeds too; on a path that  *)
(* exists and is no directory it throws and changes nothing.              *)
C14_CreateDirectoryIdempotent ==
  (last.op = "createDirectory" /\ RootConfined(last.path)) =>
    /\ Node(last.pre, Loc(last.path)).t = "dir" =>
         (last.res = Returned(TRUE) /\ fs = last.pre)
    /\ Node(last.pre, Loc(last.path)).t = "file" =>
         (last.res = Thrown("exists but is not a directory") /\ fs = last.pre)
    /\ last.res = Returned(TRUE) =>
         \A recursive \in BOOLEAN :
           createDirectory(fs, last.path, recursive) = Out(Returned(TRUE), fs, FALSE)

(* createDirectory without recursive was called on a directory below the *)
(* root that was there already, and returned true                        *)
C14_Witness ==
  /\ last.op = "createDirectory"
  /\ ~last.flag
  /\ RootConfined(last.path)
  /\ Loc(last.path) # rootDirectory.segs
  /\ Node(last.pre, Loc(last.path)).t = "dir"
  /\ last.res = Returned(TRUE)
  /\ fs = last.pre

(* the path argument of the last call passed the path resolution *)
Resolves(p) == relativeOrAbsolutePathToAbsolutePath(p).kind = "ok"

(* C15: deleteFile(p) and readFile(p) (getFile is readFile as utf8) throw *)
(* a 'does not exist' error when p is absent and an 'is not a file' error *)
(* when p is a directory; deleteFile never removes a directory, and after *)
(* a successful deleteFile(p) exists(p) is false while every other path   *)
(* is as it was.  p is a path the resolution accepts.                     *)
C15_DeleteAndReadErrors ==
  /\ (last.op \in {"deleteFile", "readFile"} /\ Resolves(last.path)) =>
       /\ Node(last.pre, Loc(last.path)).t = "none" =>
            (last.res = Thrown("does not exist") /\ fs = last.pre)
       /\ Node(last.pre, Loc(last.path)).t = "dir" =>
            (last.res = Thrown("is not a file") /\ fs = last.pre)
  /\ last.op = "deleteFile" =>
       /\ \A loc \in DOMAIN last.pre :
            last.pre[loc].t = "dir" => Node(fs, loc).t = "dir"
       /\ last.res = Returned(TRUE) =>
            /\ exists(fs, last.path).res = Returned(FALSE)
            /\ \A loc \in DOMAIN last.pre :
                 loc # Loc(last.path) => Node(fs, loc) = last.pre[loc]

(* deleteFile removed a file in a directory below the root that holds *)
(* another entry, which is still there                                *)
C15_Witness ==
  /\ last.op = "deleteFile"
  /\ last.res = Returned(TRUE)
  /\ Len(Loc(last.path)) = 3
  /\ Node(last.pre, Loc(last.path)).t = "file"
  /\ Node(fs, Loc(last.path)).t = "none"
  /\ Children(fs, Front(Loc(last.path))) # {}

----------------------------------------------------------------------------
(* Properties of glob *)

(* the root-relative paths of the entries of f that are no directories *)
NonDirectories(f) ==
  {Rel(SubSeq(loc, Len(rootDirectory.segs) + 1, Len(loc))) :
     loc \in {q \in DOMAIN f : /\ IsPrefix(rootDirectory.segs, q)
                                /\ q # rootDirectory.segs
                                /\ pathExists(f, q)
                                /\ Node(f, q).t = "file"}}

(* C16: glob returns exactly the root-relative paths of the entries that  *)
(* are no directories, match the pattern (dotfiles included) and are not  *)
(* matched by the ignore filter: none returned is ignored or a directory, *)
(* none is missing, none comes twice; when the expansion of the pattern   *)
(* fails, glob throws 'Glob operation failed' and returns no list.        *)
C16_GlobExact ==
  last.op = "glob" =>
    IF last.args.failed THEN last.res = Thrown("Glob operation failed")
    ELSE /\ last.res.kind = "ok"
         /\ {last.res.val[i] : i \in 1..Len(last.res.val)}
              = {p \in NonDirectories(fs) :
                   /\ GlobMatches(last.args.pattern, p.segs, TRUE)
                   /\ p \notin last.args.ignoreFilter}
         /\ \A i, j \in 1..Len(last.res.val) :
              last.res.val[i] = last.res.val[j] => i = j
         /\ \A i \in 1..Len(last.res.val) :
              /\ last.res.val[i] \notin last.args.ignoreFilter
              /\ Node(fs, Loc(last.res.val[i])).t = "file"

(* a pattern with a wildcard matched a dotfile, a second file and a      *)
(* directory: the dotfile came back, the second file was ignored and the *)
(* directory left out                                                    *)
C16_Witness ==
  /\ last.op = "glob"
  /\ last.args.pattern = <<"a", "*">>
  /\ last.res = Returned(<<Rel(<<"a", ".h">>)>>)
  /\ last.args.ignoreFilter = {Rel(<<"a", "a">>)}
  /\ Node(fs, Loc(Rel(<<"a", "a">>))).t = "file"

----------------------------------------------------------------------------
(* Properties of path conversion and of confinement *)

(* a normalized relative path that stays inside the root: names only, no *)
(* "." or ".." segment, no trailing slash, not empty                     *)
NormalizedInside(p) ==
  /\ ~p.abs
  /\ ~p.trail
  /\ p.segs # <<>>
  /\ \A i \in 1..Len(p.segs) : p.segs[i] \notin {".", ".."}

(* the root joined with p *)
UnderRoot(p) == Abs(rootDirectory.segs \o p.segs)

(* C17: path conversion round-trips: for every normalized relative path p *)
(* that stays inside the root, relativeOrAbsolutePathToAbsolutePath(p) is *)
(* the root joined with p, and relativeOrAbsolutePathToRelativePath of    *)
(* that absolute path, and of p itself, is p.                             *)
C17_RoundTrip ==
  /\ (last.op = "toAbsolutePath" /\ NormalizedInside(last.path)) =>
       /\ last.res = Returned(UnderRoot(last.path))
       /\ relativeOrAbsolutePathToRelativePath(last.res.val) = Returned(last.path)
  /\ (last.op = "toRelativePath" /\ NormalizedInside(last.path)) =>
       last.res = Returned(last.path)
  /\ \A p \in PathInputs :
       (last.op = "toRelativePath" /\ NormalizedInside(p) /\ last.path = UnderRoot(p))
         => last.res = Returned(p)

(* an absolute path that names a location outside the root *)
AbsoluteOutside(p) == isAbsolute(p) /\ ~IsPrefix(rootDirectory.segs, Location(p))

(* C18: every operation that takes a path, getDirectoryTree(dir) and the *)
(* workingDirectory of executeCommand included, resolves it through      *)
(* relativeOrAbsolutePathToAbsolutePath before it touches the disk or    *)
(* starts a process: given an absolute path outside the root it raises   *)
(* (exists returns false), and nothing outside the root is listed, read, *)
(* written or used as a working directory.                               *)
C18_OutsideRefused ==
  (/\ last.op \in {"writeFile", "readFile", "deleteFile", "exists", "createDirectory",
                   "getDirectoryTree", "executeCommand"}
   /\ AbsoluteOutside(last.path)) =>
    /\ IF last.op = "exists" THEN last.res = Returned(FALSE)
                             ELSE last.res.kind = "throw"
    /\ fs = last.pre
    /\ ~proc.called
    /\ last.op = "getDirectoryTree" => last.args.listed = <<>>

----------------------------------------------------------------------------
(* Properties of the order and of the pruning of a walk *)

(* the last call is a walk that ended without an error *)
WalkEnded == last.op = "getDirectoryTree" /\ last.res.kind = "ok"

(* location p lies strictly below location q *)
Below(p, q) == IsPrefix(q, p) /\ p # q

(* the filter matches neither the entry at loc nor a directory between *)
(* the start directory and that entry                                  *)
Passed(loc) ==
  \A n \in (Len(Loc(last.path)) + 1)..Len(loc) :
    relative(rootDirectory, Abs(SubSeq(loc, 1, n))) \notin last.args.ignoreFilter

(* the entries on disk the walk is to yield: those below the start     *)
(* directory that the filter passes, the direct children only when the *)
(* walk is not recursive                                               *)
Walkable ==
  {loc \in DOMAIN fs :
     /\ fs[loc].t # "none"
     /\ Below(loc, Loc(last.path))
     /\ Passed(loc)
     /\ last.flag \/ Len(loc) = Len(Loc(last.path)) + 1}

(* C19: getDirectoryTree yields in depth-first pre-order: every directory *)
(* the filter passes is yielded with a trailing "/" (a file without one)  *)
(* before any entry below it; with recursive = true all the entries below *)
(* it that the filter passes are yielded before its next sibling; with    *)
(* recursive = false only the direct children of dir are yielded and no   *)
(* directory but dir is listed.                                           *)
C19_PreOrder ==
  WalkEnded =>
    LET yields == last.res.val
        At(i)  == Loc(EntryPath(yields[i]))
        N      == 1..Len(yields)
    IN  /\ \A i \in N : yields[i].trail <=> Node(fs, At(i)).t = "dir"
        /\ \A i \in N : yields[i].segs = relative(rootDirectory, Abs(At(i))).segs
        /\ {At(i) : i \in N} = Walkable
        /\ \A i, j \in N : At(i) = At(j) => i = j
        /\ \A i, j \in N : Below(At(j), At(i)) => i < j
        /\ \A i, j, k \in N :
             (i < j /\ j < k /\ Below(At(k), At(i))) => Below(At(j), At(i))
        /\ ~last.flag => last.args.listed = <<resolve(rootDirectory, last.path)>>

(* a recursive walk of the root yielded a directory, then the file in it, *)
(* then the directory's sibling                                           *)
C19_Witness ==
  /\ WalkEnded
  /\ last.flag
  /\ last.path = EmptyStr
  /\ last.res.val = <<WithSlash(Rel(<<"a">>)), Rel(<<"a", "b">>), Rel(<<"b">>)>>
  /\ Node(fs, Loc(Rel(<<"b">>))).t = "file"

(* the root-relative paths of the directories a walk listed *)
ListedDirs ==
  {relative(rootDirectory, last.args.listed[i]) : i \in 1..Len(last.args.listed)}

(* the root-relative paths a walk put to the ignore filter *)
AskedPaths == {last.args.asked[i] : i \in 1..Len(last.args.asked)}

(* C20 as stated: during any getDirectoryTree walk the contents of a     *)
(* directory whose path the ignore filter matches are never listed, and  *)
(* the filter is never put a path below such a directory.                *)
C20_IgnoredNeverEntered ==
  last.op = "getDirectoryTree" =>
    /\ \A d \in ListedDirs : d \notin last.args.ignoreFilter
    /\ \A q \in AskedPaths : \A a \in Ancestors(q) : a \notin last.args.ignoreFilter

(* directory a lies strictly below the directory the walk started in *)
MetByWalk(a) == Below(a.segs, StartDir.segs)

(* C20 amended: during any getDirectoryTree walk, a directory that the   *)
(* walk meets below its start directory and whose root-relative path the *)
(* ignore filter matches is pruned: neither it nor a directory below it  *)
(* is listed, and the filter is never put a path below it.  The start    *)
(* directory itself is listed whatever the filter says of it.            *)
C20_IgnoredBelowDirPruned ==
  last.op = "getDirectoryTree" =>
    /\ \A d \in ListedDirs : \A a \in Ancestors(d) \cup {d} :
         MetByWalk(a) => a \notin last.args.ignoreFilter
    /\ \A q \in AskedPaths : \A a \in Ancestors(q) :
         MetByWalk(a) => a \notin last.args.ignoreFilter

(* a recursive walk of the root met an ignored directory that holds an  *)
(* entry: it put the directory and its sibling to the filter and listed *)
(* the root only                                                        *)
C20_Witness ==
  /\ last.op = "getDirectoryTree"
  /\ last.flag
  /\ last.args.ignoreFilter = {Rel(<<"a">>)}
  /\ Children(fs, Loc(Rel(<<"a">>))) # {}
  /\ last.args.asked = <<Rel(<<"a">>), Rel(<<"b">>)>>
  /\ last.args.listed = <<rootDirectory>>

----------------------------------------------------------------------------
(* Properties of a search over files that cannot all be read *)

(* the results of the last call that name the file at root-relative path p *)
ResultsFor(p) ==
  LET Names(result) == result.file = p
  IN  SelectSeq(last.res.val, Names)

(* the results a search of the one file given to getFile as file reports *)
AloneResults(file) ==
  LET content == readFile(fs, relative(rootDirectory, file)).res
  IN  IF content.kind = "throw" \/ content.val = <<>> THEN <<>>
      ELSE grepLines(file, split(content.val), 0, last.content.data,
                     last.args.linesBefore, last.args.linesAfter)

(* C21: grep is best-effort over files: with a non-empty search string a  *)
(* file whose read fails is passed over without raising and the results   *)
(* for every other file are what a search of that file alone reports;     *)
(* with an empty search string grep raises "Search string is required"    *)
(* and has listed no directory and read no file.                          *)
C21_BestEffort ==
  last.op = "grep" =>
    /\ last.content.data # <<>> =>
         /\ last.res.kind = "ok"
         /\ \A i \in 1..Len(last.args.read) :
              ResultsFor(relative(rootDirectory, last.args.read[i]))
                = AloneResults(last.args.read[i])
         /\ \A r \in 1..Len(last.res.val) :
              \E i \in 1..Len(last.args.read) :
                last.res.val[r].file = relative(rootDirectory, last.args.read[i])
    /\ last.content.data = <<>> =>
         /\ last.res = Thrown("Search string is required")
         /\ last.args.listed = <<>>
         /\ last.args.read = <<>>

(* a search gave getFile a directory, whose read fails, before a file *)
(* with a matching line, and reported that line                       *)
C21_Witness ==
  /\ last.op = "grep"
  /\ last.res.kind = "ok"
  /\ \E i, j \in 1..Len(last.args.read) :
       /\ i < j
       /\ readFile(fs, relative(rootDirectory, last.args.read[i])).res.kind = "throw"
       /\ ResultsFor(relative(rootDirectory, last.args.read[j])) # <<>>

----------------------------------------------------------------------------
(* watch.  An ignore filter that may throw is the set of strings it answers *)
(* true for and the set of strings it throws for.  A watch session is what  *)
(* chokidar.watch was given; the watcher puts the paths it reports to the   *)
(* session's ignored option.                                                *)

(* process.cwd(): the directory the program was started in *)
processCwd == Abs(<<"e">>)

(* ignoreFilter(file): what it answers, or what it throws *)
callFilter(ignoreFilter, file) ==
  IF file \in ignoreFilter.throws THEN Thrown("ignore filter failed")
  ELSE Returned(file \in ignoreFilter.matches)

(* file === "." || file === "./" *)
isRootMarker(file) == ~file.abs /\ file.segs = <<".">>

(* file.startsWith("./") *)
startsWithDotSlash(file) ==
  ~file.abs /\ file.segs # <<>> /\ Head(file.segs) = "." /\ (Len(file.segs) > 1 \/ file.trail)

(* file.substring(2) of a string that starts with "./" *)
substring2(file) == Str(FALSE, Tail(file.segs), Len(file.segs) > 1 /\ file.trail)

(* what the ignored option did: what it returned or threw, and the strings *)
(* it put to the ignore filter                                             *)
Decided(res, asked) == [res |-> res, asked |-> asked]

(* the ignored option of LocalFileSystemProvider.watch *)
ignored(file, ignoreFilter) ==
  IF isRootMarker(file) THEN Decided(Returned(FALSE), <<>>)
  ELSE LET stripped == IF startsWithDotSlash(file) THEN substring2(file) ELSE file
           answer   == callFilter(ignoreFilter, stripped)
       IN  IF answer.kind = "throw" THEN Decided(Returned(TRUE), <<stripped>>)
           ELSE Decided(answer, <<stripped>>)

(* the ignored option of the earlier LocalFileSystemService.watch *)
ignoredLegacy(file, ig) ==
  IF isRootMarker(file) THEN Decided(Returned(FALSE), <<>>)
  ELSE LET stripped == IF startsWithDotSlash(file) THEN substring2(file) ELSE file
       IN  Decided(callFilter(ig, stripped), <<stripped>>)

(* chokidar.watch(paths, {ignored, cwd, ...}): the session it opens *)
chokidarWatch(paths, cwd, ignoreFilter, legacy) ==
  [paths |-> paths, cwd |-> cwd, ignoreFilter |-> ignoreFilter, legacy |-> legacy]

(* the directory a session watches: its paths, taken relative to its cwd, *)
(* which is taken relative to the directory the program was started in    *)
watchedDirectory(session) ==
  resolve(resolve(processCwd, session.cwd), session.paths)

(* watch with the session narrowed to dir *)
watch_WatchesDir(f, dir, ignoreFilter, legacy) ==
  LET absolutePath == resolve(rootDirectory, dir)
      cwd          == relative(processCwd, rootDirectory)
  IN  IF ~pathExists(f, Location(absolutePath)) THEN Thrown("Directory does not exist")
      ELSE Returned(chokidarWatch(relative(rootDirectory, absolutePath), cwd,
                                  ignoreFilter, legacy))

(* watch(dir, {ignoreFilter}) of the Provider, and of the earlier service *)
(* when legacy                                                            *)
watch(f, dir, ignoreFilter, legacy) ==
  LET absolutePath == resolve(rootDirectory, dir)
      cwd          == relative(processCwd, rootDirectory)
  IN  IF ~pathExists(f, Location(absolutePath)) THEN Thrown("Directory does not exist")
      ELSE Returned(chokidarWatch(Str(FALSE, <<".">>, TRUE), cwd, ignoreFilter, legacy))

(* the directories watch is called on: the root in three spellings, *)
(* entries below it and a directory outside it                      *)
WatchDirs ==
  {EmptyStr, Rel(<<".">>), rootDirectory, Rel(<<"a">>), Rel(<<"a", "b">>), Rel(<<"b">>),
   Abs(<<"e">>)}

(* the strings a watcher reports *)
WatchFiles ==
  {Rel(<<".">>), Str(FALSE, <<".">>, TRUE), Rel(<<".", "a">>), Rel(<<"a">>),
   Rel(<<".", ".">>), Rel(<<".", ".", "a">>), Str(FALSE, <<".", "a">>, TRUE),
   Rel(<<"a", "b">>), Abs(<<"r", "a">>)}

WatchFilters ==
  {[matches |-> m, throws |-> t] :
     m \in {{}, {Rel(<<"a">>)}, {Rel(<<".">>), Rel(<<".", "a">>)}},
     t \in {{}, {Rel(<<"a">>)}, {Rel(<<".">>), Str(FALSE, <<"a">>, TRUE)}}}

NotReported == [none |-> TRUE]

CallWatch(dir, ignoreFilter, legacy) ==
  /\ pc = "idle"
  /\ pc' = "returned"
  /\ last' = [Call("watch", dir, EmptyStr, NoContent, legacy,
                   watch(fs, dir, ignoreFilter, legacy), fs)
                EXCEPT !.args = [ignoreFilter |-> ignoreFilter, reported |-> NotReported]]
  /\ UNCHANGED <<fs, proc>>

(* the watcher of the open session puts a path to the ignored option *)
WatcherReports(file) ==
  /\ pc = "returned"
  /\ last.op = "watch"
  /\ last.res.kind = "ok"
  /\ LET session == last.res.val
         decided == IF session.legacy THEN ignoredLegacy(file, session.ignoreFilter)
                                      ELSE ignored(file, session.ignoreFilter)
     IN  last' = [last EXCEPT !.args.reported =
                    [file |-> file, res |-> decided.res, asked |-> decided.asked]]
  /\ UNCHANGED <<fs, pc, proc>>

NextWatch ==
  \/ pc = "idle" /\ \E p \in {Rel(<<"a", "b">>), Rel(<<"b">>)} : CallCreateDirectory(p, TRUE)
  \/ pc = "idle" /\ \E p \in {Rel(<<"a">>), Rel(<<"b">>)}, c \in WalkContents :
                     CallWriteFile(p, c)
  \/ pc = "idle" /\ \E dir \in WatchDirs, ignoreFilter \in WatchFilters,
                       legacy \in BOOLEAN :
                     CallWatch(dir, ignoreFilter, legacy)
  \/ \E file \in WatchFiles : WatcherReports(file)
  \/ Return

SpecWatch == InitOutside /\ [][NextWatch]_vars

----------------------------------------------------------------------------
(* Properties of watch *)

(* the watcher of an open session has put a path to the ignored option *)
HasReported ==
  /\ last.op = "watch"
  /\ last.res.kind = "ok"
  /\ last.args.reported # NotReported

(* C22: the watcher's ignore decision for a reported path f: not ignored  *)
(* when f is "." or "./", the filter not being asked; otherwise what the   *)
(* filter answers for f less one leading "./"; and ignored whenever the    *)
(* filter throws, so that what the filter throws never reaches the watcher *)
C22_IgnoreDecision ==
  HasReported =>
    LET f        == last.args.reported.file
        filter   == last.args.ignoreFilter
        stripped == IF startsWithDotSlash(f) THEN substring2(f) ELSE f
    IN  /\ last.args.reported.res.kind = "ok"
        /\ isRootMarker(f) =>
             /\ last.args.reported.res.val = FALSE
             /\ last.args.reported.asked = <<>>
        /\ ~isRootMarker(f) =>
             /\ last.args.reported.asked = <<stripped>>
             /\ last.args.reported.res.val
                  = (stripped \in filter.throws \/ stripped \in filter.matches)

----------------------------------------------------------------------------
(* executeCommand in steps: the call hands the command to execa and awaits *)
(* its promise, which settles when the subprocess ends by itself or when   *)
(* the timer that execa sets for a timeout above 0 ends it.                *)

(* the subprocess of the awaited call ends without the timer: it cannot be *)
(* started, it writes more than maxBuffer, or it exits before the timeout  *)
EndsByItself(f, opts, behaviour) ==
  \/ ~pathExists(f, Location(opts.cwd))
  \/ Node(f, Location(opts.cwd)).t # "dir"
  \/ ~behaviour.found
  \/ behaviour.flood
  \/ behaviour.seconds >= 0 /\ (opts.timeout = 0 \/ behaviour.seconds * 1000 <= opts.timeout)

(* the call runs up to its await: it raises, returns the result for an *)
(* empty array, or has called execa and awaits it                      *)
BeginExecuteCommand(command, option, workingDirectory, behaviour) ==
  \E ran \in {executeCommand(fs, command, option, workingDirectory, behaviour)} :
    /\ pc = "idle"
    /\ pc' = IF ran.proc.called THEN "awaiting" ELSE "returned"
    /\ proc' = ran.proc
    /\ last' = [Call("executeCommand", workingDirectory, EmptyStr, NoContent, FALSE,
                     IF ran.proc.called THEN Thrown("pending") ELSE ran.res, fs)
                  EXCEPT !.args = [command |-> command, timeoutSeconds |-> option,
                                   behaviour |-> behaviour, killed |-> FALSE]]
    /\ UNCHANGED fs

(* the subprocess ends by itself and the awaited promise settles *)
SubprocessEnds ==
  /\ pc = "awaiting"
  /\ EndsByItself(fs, proc, last.args.behaviour)
  /\ pc' = "returned"
  /\ last' = [last EXCEPT !.res = executeCommand(fs, last.args.command,
                                                 last.args.timeoutSeconds, last.path,
                                                 last.args.behaviour).res]
  /\ UNCHANGED <<fs, proc>>

(* the timer of execa fires: it kills the subprocess and rejects the *)
(* promise, and the catch block makes the result                     *)
TimeoutExpires ==
  /\ pc = "awaiting"
  /\ proc.timeout > 0
  /\ ~EndsByItself(fs, proc, last.args.behaviour)
  /\ pc' = "returned"
  /\ last' = [last EXCEPT !.res = executeCommand(fs, last.args.command,
                                                 last.args.timeoutSeconds, last.path,
                                                 last.args.behaviour).res,
                          !.args.killed = TRUE]
  /\ UNCHANGED <<fs, proc>>

RunTimeouts == {Omitted, Seconds(0), Seconds(1), Seconds(30), Seconds(10000)}

NextRun ==
  \/ pc = "idle" /\ \E command \in Commands, option \in RunTimeouts,
                       workingDirectory \in WorkingDirectories, behaviour \in Behaviours :
                     BeginExecuteCommand(command, option, workingDirectory, behaviour)
  \/ SubprocessEnds
  \/ TimeoutExpires
  \/ Return

(* a subprocess that ends by itself does end, and a timer that is set fires *)
SpecRun ==
  /\ InitExec
  /\ [][NextRun]_vars
  /\ WF_vars(SubprocessEnds)
  /\ WF_vars(TimeoutExpires)

----------------------------------------------------------------------------
(* Properties of executeCommand in steps *)

(* the subprocess of the awaited call never exits by itself *)
NeverExits ==
  /\ last.args.behaviour.found
  /\ ~last.args.behaviour.flood
  /\ last.args.behaviour.seconds < 0

(* C24: every executeCommand call with a non-empty command returns in the *)
(* end: a call that awaits its subprocess completes when the subprocess   *)
(* exits or, if it never exits by itself, when the clamped timeout        *)
(* expires; the subprocess is then killed and the call returns a result   *)
(* with ok = false: it neither raises nor hangs.                          *)
C24_EventuallyReturns ==
  (pc = "awaiting")
    ~> (/\ pc = "returned"
        /\ last.res.kind = "ok"
        /\ (proc.called /\ proc.cwd = rootDirectory /\ NeverExits) =>
             /\ last.args.killed
             /\ ~last.res.val.ok
             /\ last.res.val.error = "timed out")

(* a call whose subprocess never exits returned after the timer ended it *)
C24_Witness ==
  /\ pc = "returned"
  /\ last.op = "executeCommand"
  /\ proc.called
  /\ proc.timeout = MinTimeoutSeconds * 1000
  /\ NeverExits
  /\ last.args.killed
  /\ last.res.kind = "ok"
  /\ ~last.res.val.ok

----------------------------------------------------------------------------
(* Path resolution and the disk.  The Provider resolves a path without     *)
(* looking at the disk; the earlier LocalFileSystemService probes the disk *)
(* for an absolute path before it tests containment.                       *)

(* relativeOrAbsolutePathToAbsolutePath with a probe of the disk put first *)
resolvePath_Probes(f, p) ==
  IF isAbsolute(p) /\ pathExists(f, Location(resolve(rootDirectory, p)))
    THEN Returned(resolve(rootDirectory, p))
    ELSE relativeOrAbsolutePathToAbsolutePath(p)

(* relativeOrAbsolutePathToAbsolutePath of the Provider, called while the *)
(* disk is f: no statement of it reads or writes the disk                 *)
resolvePath(f, p) == relativeOrAbsolutePathToAbsolutePath(p)

(* the names /[^\/]+\.[a-zA-Z0-9]+/ matches: a character, a dot, and *)
(* letters or digits                                                 *)
ExtNames == {"f.x", "..a"}

(* p.replace(/\/[^\/]+\.[a-zA-Z0-9]+/): the first "/name.ext" of the    *)
(* string gives way to the text "undefined", replace being called with *)
(* no replacement                                                      *)
withoutFile(p) ==
  IF \A i \in 1..Len(p.segs) : p.segs[i] \notin ExtNames THEN p
  ELSE LET k    == CHOOSE i \in 1..Len(p.segs) :
                     p.segs[i] \in ExtNames /\ \A j \in 1..(i - 1) : p.segs[j] \notin ExtNames
           rest == SubSeq(p.segs, k + 1, Len(p.segs))
       IN  IF k = 1 THEN Str(FALSE, <<"undefined">> \o rest, p.trail)
           ELSE Str(TRUE,
                    SubSeq(p.segs, 1, k - 2) \o <<p.segs[k - 1] \o "undefined">> \o rest,
                    p.trail)

(* fs.existsSync *)
existsSync(f, p) == pathExists(f, Location(p))

(* relativeOrAbsolutePathToAbsolutePath of the earlier LocalFileSystemService *)
legacyRelativeOrAbsolutePathToAbsolutePath(f, p) ==
  IF ~isAbsolute(p) THEN Returned(resolve(rootDirectory, p))
  ELSE IF existsSync(f, resolve(rootDirectory, p))
    THEN Returned(resolve(rootDirectory, p))
  ELSE IF existsSync(f, resolve(rootDirectory, withoutFile(p)))
    THEN Returned(resolve(rootDirectory, p))
  ELSE LET relativePath == relative(rootDirectory, p)
       IN  IF startsWithDotDot(relativePath) \/ isAbsolute(relativePath)
             THEN Thrown("outside the root directory")
             ELSE Returned(resolve(rootDirectory, p))

(* the locations of the disks the resolvers are called on *)
ProbedLocations ==
  {<<>>, <<"e">>, <<"e", "f.x">>, <<"eundefined">>, rootDirectory.segs,
   rootDirectory.segs \o <<"a">>, rootDirectory.segs \o <<"f.x">>,
   rootDirectory.segs \o <<"undefined">>}

(* the disks: "/" and the root are directories, and what exists lies in a *)
(* directory                                                              *)
ProbedDisks ==
  {f \in [ProbedLocations -> {NoNode, DirNode, FileNode(<<>>)}] :
     /\ f[<<>>] = DirNode
     /\ f[rootDirectory.segs] = DirNode
     /\ \A loc \in ProbedLocations :
          (loc # <<>> /\ f[loc].t # "none") => f[Front(loc)].t = "dir"}

ProbedInputs ==
  {Abs(<<"e">>), Abs(<<"e", "f.x">>), Abs(<<"f.x">>), Abs(<<"e", "a">>),
   Abs(<<"r", "a">>), Abs(<<"r", "f.x">>), Abs(<<"r", "..", "e">>), rootDirectory,
   Rel(<<"a">>), Rel(<<"..", "e">>)}

CallResolvePath(p) ==
  /\ pc = "idle"
  /\ pc' = "returned"
  /\ last' = Call("resolvePath", p, EmptyStr, NoContent, FALSE, resolvePath(fs, p), fs)
  /\ UNCHANGED <<fs, proc>>

CallLegacyResolvePath(p) ==
  /\ pc = "idle"
  /\ pc' = "returned"
  /\ last' = Call("legacyResolvePath", p, EmptyStr, NoContent, FALSE,
                  legacyRelativeOrAbsolutePathToAbsolutePath(fs, p), fs)
  /\ UNCHANGED <<fs, proc>>

InitProbed ==
  /\ fs \in ProbedDisks
  /\ last = NoCall
  /\ pc = "idle"
  /\ proc = NoProc

NextProbed ==
  \/ pc = "idle" /\ \E p \in ProbedInputs : CallResolvePath(p)
  \/ pc = "idle" /\ \E p \in ProbedInputs : CallLegacyResolvePath(p)
  \/ Return

SpecProbed == InitProbed /\ [][NextProbed]_vars

----------------------------------------------------------------------------
(* Properties of path resolution over disks *)

C26_LegacyRefusesOutside ==
  (last.op = "legacyResolvePath" /\ AbsoluteOutside(last.path)) =>
    last.res = Thrown("outside the root directory")

----------------------------------------------------------------------------
(* Properties of what the ignore filter is asked *)

(* C27: the ignore filter is only ever called with root-relative paths: *)
(* in every call made to it from getDirectoryTree and grep the argument *)
(* is a path relative to the root directory, never an absolute path.    *)
C27_FilterAskedRelativePaths ==
  last.op \in {"getDirectoryTree", "grep"} =>
    \A i \in 1..Len(last.args.asked) : ~isAbsolute(last.args.asked[i])

----------------------------------------------------------------------------
(* Two calls at once.  An async method runs to its first await when it is *)
(* called and from one await to the next in one piece; between the awaits *)
(* of one call the other call may run.  A task is a call with the await   *)
(* it stands at, its outcome, and two notes for the properties: whether   *)
(* its fs.rename found an entry at the destination (replaced), and        *)
(* whether the other call put an entry there after this call had found    *)
(* the destination free (overtaken).                                      *)

(* the task of a call that has run to its first await *)
Task(op, path, path2, content) ==
  LET old == relativeOrAbsolutePathToAbsolutePath(path)
      new == relativeOrAbsolutePathToAbsolutePath(path2)
      bad == IF old.kind = "throw" THEN old ELSE new
  IN  [op |-> op, path |-> path, path2 |-> path2, content |-> content,
       at |-> IF bad.kind = "throw" THEN "done"
              ELSE IF op = "rename" THEN "pathExists old" ELSE "ensureDir",
       res |-> IF bad.kind = "throw" THEN bad ELSE Thrown("pending"),
       overtaken |-> FALSE, replaced |-> FALSE]

(* a task and the disk after one of its awaits *)
Stepped(task, f, over) == [task |-> task, fs |-> f, over |-> over]

(* the task ends: it throws or returns *)
Ends(task, res, f) == Stepped([task EXCEPT !.at = "done", !.res = res], f, FALSE)

(* await fs.pathExists(absoluteNewPath), never finding anything *)
destinationTaken_Never(f, loc) == FALSE

(* await fs.pathExists(absoluteNewPath) *)
destinationTaken(f, loc) == pathExists(f, loc)

(* rename from one await to the next *)
renameStep(f, task) ==
  LET old == Location(resolve(rootDirectory, task.path))
      new == Location(resolve(rootDirectory, task.path2))
  IN  IF task.at = "pathExists old"
        THEN IF ~pathExists(f, old) THEN Ends(task, Thrown("does not exist"), f)
             ELSE Stepped([task EXCEPT !.at = "pathExists new"], f, FALSE)
      ELSE IF task.at = "pathExists new"
        THEN IF destinationTaken(f, new) THEN Ends(task, Thrown("already exists"), f)
             ELSE Stepped([task EXCEPT !.at = "ensureDir"], f, FALSE)
      ELSE IF task.at = "ensureDir"
        THEN LET made == ensureDir(f, Front(new))
             IN  IF made.err # "" THEN Ends(task, Thrown(made.err), f)
                 ELSE Stepped([task EXCEPT !.at = "rename"], made.fs, made.over)
      ELSE LET moved == fsRename(f, old, new)
           IN  IF moved.err # "" THEN Ends(task, Thrown(moved.err), f)
               ELSE Stepped([task EXCEPT !.at = "done", !.res = Returned(TRUE),
                                         !.replaced = pathExists(f, new)],
                            moved.fs, moved.over)

(* writeFile from one await to the next *)
writeFileStep(f, task) ==
  LET loc == Location(resolve(rootDirectory, task.path))
  IN  IF task.at = "ensureDir"
        THEN LET made == ensureDir(f, Front(loc))
             IN  IF made.err # "" THEN Ends(task, Thrown(made.err), f)
                 ELSE Stepped([task EXCEPT !.at = "writeFile"], made.fs, made.over)
      ELSE LET written == fsWriteFile(f, loc, ContentBytes(task.content))
           IN  IF written.err # "" THEN Ends(task, Thrown(written.err), f)
               ELSE Stepped([task EXCEPT !.at = "done", !.res = Returned(TRUE)],
                            written.fs, written.over)

(* the note taken of a rename that has found its destination free, when *)
(* the other call takes the disk from f to g                            *)
Noted(task, f, g) ==
  LET new == Location(resolve(rootDirectory, task.path2))
  IN  IF task.op = "rename" /\ task.at \in {"ensureDir", "rename"}
         /\ ~pathExists(f, new) /\ pathExists(g, new)
        THEN [task EXCEPT !.overtaken = TRUE]
        ELSE task

(* two files in a directory, and a destination that is free, a file or a *)
(* directory                                                             *)
RaceDisks ==
  {[EmptyFs EXCEPT ![rootDirectory.segs \o <<"a">>] = DirNode,
                   ![rootDirectory.segs \o <<"a", "a">>] = FileNode(<<"x">>),
                   ![rootDirectory.segs \o <<"a", "b">>] = one,
                   ![rootDirectory.segs \o <<"b">>] = two] :
     one \in {NoNode, FileNode(<<"y">>)},
     two \in {NoNode, FileNode(<<"x", "y">>), DirNode}}

RaceCalls ==
  {Task("rename", Rel(<<"a", "a">>), Rel(<<"b">>), NoContent),
   Task("rename", Rel(<<"a", "b">>), Rel(<<"b">>), NoContent),
   Task("rename", Rel(<<"a", "a">>), Rel(<<"b", "a">>), NoContent),
   Task("rename", Rel(<<"a", "a">>), Abs(<<"e">>), NoContent),
   Task("writeFile", Rel(<<"b">>), EmptyStr, StringContent(<<"y", "y">>))}

(* two calls are made, one after the other, before either is awaited *)
StartRace(first, second) ==
  /\ pc = "idle"
  /\ pc' = "racing"
  /\ last' = [Call("race", EmptyStr, EmptyStr, NoContent, FALSE, Thrown("pending"), fs)
                EXCEPT !.args = [tasks |-> <<first, second>>]]
  /\ UNCHANGED <<fs, proc>>

(* call i runs from the await it stands at to its next *)
RaceStep(i) ==
  /\ pc = "racing"
  /\ last.args.tasks[i].at # "done"
  /\ \E stepped \in {IF last.args.tasks[i].op = "rename"
                       THEN renameStep(fs, last.args.tasks[i])
                       ELSE writeFileStep(fs, last.args.tasks[i])} :
       /\ ~stepped.over
       /\ fs' = stepped.fs
       /\ last' = [last EXCEPT !.args.tasks =
                     [j \in {1, 2} |-> IF j = i THEN stepped.task
                                       ELSE Noted(last.args.tasks[j], fs, stepped.fs)]]
  /\ UNCHANGED <<pc, proc>>

(* both calls have settled *)
EndRace ==
  /\ pc = "racing"
  /\ \A i \in {1, 2} : last.args.tasks[i].at = "done"
  /\ pc' = "returned"
  /\ UNCHANGED <<fs, last, proc>>

InitRace ==
  /\ fs \in RaceDisks
  /\ last = NoCall
  /\ pc = "idle"
  /\ proc = NoProc

NextRace ==
  \/ pc = "idle" /\ \E first \in RaceCalls, second \in RaceCalls : StartRace(first, second)
  \/ \E i \in {1, 2} : RaceStep(i)
  \/ EndRace
  \/ Return

SpecRace == InitRace /\ [][NextRace]_vars

----------------------------------------------------------------------------
(* Properties of two calls at once *)

(* call i of the two is a rename that has returned true *)
RenameSucceeded(i) ==
  /\ last.args.tasks[i].op = "rename"
  /\ last.args.tasks[i].res = Returned(TRUE)

(* both calls are renames onto one destination *)
SameDestination ==
  /\ last.args.tasks[1].op = "rename"
  /\ last.args.tasks[2].op = "rename"
  /\ last.args.tasks[1].path2 = last.args.tasks[2].path2

(* C28 as stated: under every interleaving of two calls at once onto one *)
(* destination b, a rename that returns true never replaces an entry     *)
(* that was at b when fs.rename ran, and at most one of two renames onto *)
(* the same b returns true.                                              *)
C28_NeverReplaces ==
  last.op = "race" =>
    /\ \A i \in {1, 2} : RenameSucceeded(i) => ~last.args.tasks[i].replaced
    /\ SameDestination => ~(RenameSucceeded(1) /\ RenameSucceeded(2))

(* C28 amended: a rename that returns true found b free at its own check, *)
(* and it replaces an entry at b only when the other call put that entry  *)
(* there between that check and its fs.rename; two renames onto the same  *)
(* b both return true only in such an interleaving, the second fs.rename  *)
(* replacing what the first put at b.                                     *)
C28_ReplacesOnlyWhenOvertaken ==
  last.op = "race" =>
    /\ \A i \in {1, 2} :
         (RenameSucceeded(i) /\ last.args.tasks[i].replaced)
           => last.args.tasks[i].overtaken
    /\ (SameDestination /\ RenameSucceeded(1) /\ RenameSucceeded(2)) =>
         \E i \in {1, 2} : last.args.tasks[i].overtaken /\ last.args.tasks[i].replaced

(* two renames onto a free b both returned true: b holds the second *)
(* source's content and the first source's content is on no file    *)
C28_Witness ==
  /\ pc = "returned"
  /\ last.op = "race"
  /\ SameDestination
  /\ RenameSucceeded(1)
  /\ RenameSucceeded(2)
  /\ Node(last.pre, rootDirectory.segs \o <<"b">>).t = "none"
  /\ Node(fs, rootDirectory.segs \o <<"b">>).bytes = <<"y">>
  /\ \A loc \in DOMAIN fs : fs[loc].bytes # <<"x">>

----------------------------------------------------------------------------
(* stat and chmod.  A node of the disk holds a type and bytes; times and  *)
(* permission bits are not part of it, so a chmod that succeeds leaves    *)
(* the modelled disk as it was.  Whether the system refuses the change is *)
(* an input.                                                              *)

stat(f, filePath) ==
  LET absolutePath == relativeOrAbsolutePathToAbsolutePath(filePath)
  IN  IF absolutePath.kind = "throw" THEN Out(absolutePath, f, FALSE)
      ELSE IF ~pathExists(f, Location(absolutePath.val))
        THEN Out(Thrown("does not exist"), f, FALSE)
      ELSE Out(Returned([path |-> filePath,
                         absolutePath |-> absolutePath.val,
                         isFile |-> Node(f, Location(absolutePath.val)).t = "file",
                         isDirectory |-> Node(f, Location(absolutePath.val)).t = "dir",
                         size |-> Len(Node(f, Location(absolutePath.val)).bytes)]),
               f, FALSE)

chmod(f, filePath, mode, refused) ==
  LET absolutePath == relativeOrAbsolutePathToAbsolutePath(filePath)
  IN  IF absolutePath.kind = "throw" THEN Out(absolutePath, f, FALSE)
      ELSE IF ~pathExists(f, Location(absolutePath.val))
        THEN Out(Thrown("does not exist"), f, FALSE)
      ELSE IF refused THEN Out(Thrown("Failed to change permissions"), f, FALSE)
      ELSE Out(Returned(TRUE), f, FALSE)

CallStat(p) ==
  Settle("stat", p, EmptyStr, NoContent, FALSE, stat(fs, p))

CallChmod(p, mode, refused) ==
  Settle("chmod", p, EmptyStr, NoContent, refused, chmod(fs, p, mode, refused))

NextFrame ==
  \/ pc = "idle" /\ \E p \in FsInputs, c \in WriteContents : CallWriteFile(p, c)
  \/ pc = "idle" /\ \E p \in FsInputs : CallDeleteFile(p)
  \/ pc = "idle" /\ \E p \in FsInputs : CallReadFile(p)
  \/ pc = "idle" /\ \E p \in FsInputs, q \in FsInputs : CallRename(p, q)
  \/ pc = "idle" /\ \E p \in FsInputs, recursive \in BOOLEAN : CallCreateDirectory(p, recursive)
  \/ pc = "idle" /\ \E p \in FsInputs, q \in FsInputs, overwrite \in BOOLEAN : CallCopy(p, q, overwrite)
  \/ pc = "idle" /\ \E p \in FsInputs : CallStat(p)
  \/ pc = "idle" /\ \E p \in FsInputs, refused \in BOOLEAN : CallChmod(p, 420, refused)
  \/ Return

SpecFrame == InitFs /\ [][NextFrame]_vars

----------------------------------------------------------------------------
(* Properties of failed calls *)

(* the failures of a precondition: containment, a missing target, a type *)
(* mismatch, an existing destination, a missing parent                   *)
PreconditionFailures ==
  {"outside the root directory", "does not exist", "Source path does not exist",
   "is not a file", "exists but is not a directory", "already exists",
   "Destination path already exists", "Parent directory does not exist"}

(* the last call was one of the seven operations and raised on a *)
(* precondition                                                  *)
FailedPrecondition ==
  /\ last.op \in {"deleteFile", "readFile", "rename", "copy", "stat", "chmod",
                  "createDirectory"}
  /\ last.res.kind = "throw"
  /\ last.res.msg \in PreconditionFailures

(* C29: when deleteFile, readFile, rename, copy, stat, chmod or          *)
(* createDirectory raises on a precondition (containment, missing        *)
(* target, type mismatch, existing destination, missing parent), every   *)
(* location of the disk holds what it held before the call: no entry is  *)
(* made or removed, no content changes, no destination parent is made.   *)
C29_FailureLeavesDiskUntouched ==
  FailedPrecondition => fs = last.pre

(* on a disk with entries, a rename of a missing source into a missing *)
(* directory has raised                                                *)
C29_Witness ==
  /\ FailedPrecondition
  /\ last.op = "rename"
  /\ last.res.msg = "does not exist"
  /\ last.path2 = Rel(<<"a", "b">>)
  /\ Node(last.pre, rootDirectory.segs \o <<"a">>).t = "none"
  /\ Entries(last.pre) # {}

====
